---- MODULE Spec2Model ----
(***************************************************************************)
(* goodmusic: the web client's session layer (apiFetch with its single     *)
(* refresh-and-retry, login, register, logout, the verify page, the search *)
(* page) and the status list, against the REST API it talks to.            *)
(*                                                                         *)
(* The FastAPI backend is not part of the sources; its handlers are        *)
(* modelled from the specification (sections 4.1, 4.2) and are marked so   *)
(* in the model map.  Everything on the client is translated from the      *)
(* TypeScript sources.                                                     *)
(***************************************************************************)
EXTENDS Integers, Sequences, FiniteSets, Bags, TLC

\* ------------------------------------------------------------------ bounds
\* access tokens the server mints in one behaviour (logins + refreshes)
MaxTok == 3
\* refresh tokens the server issues in one behaviour (successful logins)
MaxRef == 2
\* status rows the server creates in one behaviour
MaxRows == 3
\* entries the client's status list holds (addStatus appends without limit)
MaxList == 2
\* reviews of one album whose ratings are averaged
MaxRatings == 3

\* ------------------------------------------------------------------ values
Users == {"alice", "bob"}
Emails == {"a@x.com", "b@x.com"}
Passwords == {"p1", "p2"}
NoUser == "null"
\* localStorage.getItem(key) of an absent key is null
NoToken == [kind |-> "null", owner |-> NoUser, n |-> 0]
\* localStorage.setItem(key, undefined) stores the string "undefined"
Undefined == [kind |-> "undefined", owner |-> NoUser, n |-> 0]
NoMsg == "none"

\* apiFetch call sites that can be in flight at the same time: the /me request
\* of login, and one request of the application (statuses, reviews, ...)
Callers == {"login", "app", "init"}
AppCallers == {"app"}

VARIABLES
    localStorage,   \* browser storage: access_token, refresh_token
    user,           \* AuthProvider state: the logged-in user or null
    calls,          \* one apiFetch invocation per call site
    login,          \* the login() invocation of the login page
    loginError,     \* the login page's error banner
    search,         \* the search page: request in flight, result list
    accessExpired,  \* server clock: access tokens 1..accessExpired have expired
    refreshExpired, \* server clock: refresh tokens 1..refreshExpired have expired
    nextTok,        \* server: access tokens minted so far
    nextRef,        \* server: refresh tokens issued so far
    accounts,       \* server: the users table
    regForm,        \* the register page
    verifyPage,     \* the verify page
    lastVerify,     \* what the server's verify returned last (history)
    srvStatuses,    \* server: the status rows
    nextRowId,      \* server: status rows created so far
    statuses,       \* MusicProvider state: the local status list
    statusOps,      \* addStatus / removeStatus / updateStatus invocations in flight
    lastPress,      \* the status asked for by the status button pressed last (history)
    statusLoads,    \* MusicProvider: the loads of the status list in flight (a bag)
    schema,         \* server: the declaration user_album_status was created from
    follows,        \* server: the number of follow rows per <<follower, followee>>
    followLog,      \* the follow last served, the view before the follow last answered (history)
    profileUser,    \* the profile page: the profile shown, or null
    followOps,      \* toggleFollow invocations in flight
    followButton,   \* a FollowButton component: its state and its request in flight
    profileLoad,    \* the profile page: its fetch of the profile in flight
    srvReviews,     \* server: the reviews
    nextReviewId,   \* server: reviews created so far
    reviews,        \* ReviewSection state: the album page's review list
    newRating,      \* ReviewSection state: the star picker's value
    reviewOps,      \* handleSubmit invocations in flight
    reviewLoad,     \* ReviewSection: its fetch of the review list in flight
    avgRating,      \* AlbumCard state: the average shown
    avgOp,          \* AlbumCard: its average-rating request and the answer on its way
    home,           \* the home page
    boot            \* the API container: the run of start.sh

tokenVars == <<accessExpired, refreshExpired, nextTok, nextRef>>
sessionVars == <<localStorage, user, calls, login, loginError, tokenVars>>
registerVars == <<accounts, regForm, verifyPage, lastVerify, boot>>
shelfVars == <<srvStatuses, nextRowId, statuses, statusOps, lastPress, schema>>
statusVars == <<shelfVars, statusLoads>>
socialVars == <<follows, followLog, profileUser, followOps, followButton, profileLoad>>
reviewVars == <<srvReviews, nextReviewId, reviews, newRating, reviewOps, avgRating, avgOp,
               reviewLoad>>
pageVars == <<socialVars, reviewVars, home, profileLoad>>
vars == <<sessionVars, search, registerVars, statusVars, pageVars>>

\* ------------------------------------------------------------------ server: tokens
\* (spec 4.1) the n-th access token, identifying user u
AccessToken(u, n) == [kind |-> "access", owner |-> u, n |-> n]
RefreshTokenOf(u, n) == [kind |-> "refresh", owner |-> u, n |-> n]

\* (spec 3) tokens of one kind share a lifetime, so they expire in the order
\* they were issued: the tokens that still verify are the newest ones
ValidAccess == {AccessToken(u, n) : u \in Users, n \in (accessExpired + 1)..nextTok}
ValidRefresh == {RefreshTokenOf(u, n) : u \in Users, n \in (refreshExpired + 1)..nextRef}

\* (spec 4.1) authenticate(bearer): 401 if missing/invalid/expired
Authenticate(bearer) == bearer \in ValidAccess

\* what a protected endpoint can answer to a request carrying `bearer`:
\* 401 when it does not authenticate, otherwise success or another failure;
\* "network" is fetch() rejecting
ProtectedAnswers(bearer) ==
    IF Authenticate(bearer) THEN {"200", "500", "network"} ELSE {"401", "network"}

\* (spec 4.1) refresh(refresh_token): fails if invalid/expired, otherwise a new
\* access token; the refresh token itself is neither rotated nor consumed.
\* "200-nobody" is a 200 whose body does not parse (data = {})
RefreshAnswers(rtok) ==
    IF rtok \in ValidRefresh THEN {"200", "200-nobody", "network"} ELSE {"401", "network"}

\* ------------------------------------------------------------------ apiFetch
\* token: the bearer of the request in flight; rtok: the refresh token in the
\* body of the /refresh request in flight; status: the status of `res`
IdleCall == [pc |-> "idle", token |-> NoToken, rtok |-> NoToken,
             status |-> "none", sends |-> 0, refreshes |-> 0, result |-> "none"]

\* lines 3-12: read the stored token, send the first attempt with it
FirstAttempt(ls) ==
    [IdleCall EXCEPT !.pc = "await1", !.token = ls.access_token, !.sends = 1]

\* line 15: which responses trigger the refresh path
ShouldRefresh_any(status) == status # "200"
ShouldRefresh(status) == status = "401"

\* a rejected fetch(): the exception leaves apiFetch
Reject(call) ==
    [call EXCEPT !.pc = "done", !.status = "network", !.result = "throw"]

\* lines 29-34: the outcome of the call for its final response `status`
Finish(call, status) ==
    [call EXCEPT !.pc = "done", !.status = status,
                 !.result = IF status = "200" THEN "ok" ELSE "throw"]

\* lines 27-34: after the retried request's response there is no further attempt
AfterRetry_again(call, status) ==
    IF status = "401"
    THEN [call EXCEPT !.pc = "await1", !.status = status]
    ELSE Finish(call, status)
AfterRetry(call, status) == Finish(call, status)

\* lines 18-25: the bearer of the retried request
RetryBearer_old(token, refreshed) == token
RetryBearer(token, refreshed) == refreshed

\* lines 39, 48: a refresh that fails returns null and leaves storage alone
RefreshFailed_clear(ls) == [access_token |-> NoToken, refresh_token |-> NoToken]
RefreshFailed(ls) == ls

\* line 51: what a successful refresh writes to storage
StoreRefreshed_keep(ls, tok) == ls
StoreRefreshed_rotate(ls, tok) ==
    [ls EXCEPT !.access_token = tok, !.refresh_token = Undefined]
StoreRefreshed(ls, tok) == [ls EXCEPT !.access_token = tok]

\* an application call site calls apiFetch(path)
ApiFetchStart(c) ==
    /\ c \in AppCallers
    /\ calls[c].pc = "idle"
    /\ calls' = [calls EXCEPT ![c] = FirstAttempt(localStorage)]
    /\ UNCHANGED <<localStorage, user, login, loginError, tokenVars>>
    /\ UNCHANGED <<search, registerVars, statusVars, pageVars>>

\* lines 5-16 and 37-46: the first response arrives; on 401 refreshAccessToken
\* runs up to its fetch() of /refresh
ApiFetchFirstResponse(c) ==
    /\ calls[c].pc = "await1"
    /\ \E s \in ProtectedAnswers(calls[c].token) :
        IF s = "network"
        THEN calls' = [calls EXCEPT ![c] = Reject(@)]
        ELSE IF ShouldRefresh(s) /\ localStorage.refresh_token # NoToken
        THEN calls' = [calls EXCEPT ![c] =
                         [@ EXCEPT !.pc = "refreshing", !.status = s,
                                   !.rtok = localStorage.refresh_token,
                                   !.refreshes = @ + 1]]
        ELSE calls' = [calls EXCEPT ![c] = Finish(@, s)]
    /\ UNCHANGED <<localStorage, user, login, loginError, tokenVars>>
    /\ UNCHANGED <<search, registerVars, statusVars, pageVars>>

\* lines 17-26 and 42-52: the answer to POST /refresh arrives
ApiFetchRefreshResponse(c) ==
    /\ calls[c].pc = "refreshing"
    /\ \E a \in RefreshAnswers(calls[c].rtok) :
        CASE a = "network" ->
                /\ calls' = [calls EXCEPT ![c] = Reject(@)]
                /\ UNCHANGED <<localStorage, nextTok>>
          [] a = "401" ->
                /\ calls' = [calls EXCEPT ![c] = Finish(@, calls[c].status)]
                /\ localStorage' = RefreshFailed(localStorage)
                /\ UNCHANGED nextTok
          [] a = "200-nobody" ->
                /\ localStorage' = StoreRefreshed(localStorage, Undefined)
                /\ calls' = [calls EXCEPT ![c] = Finish(@, calls[c].status)]
                /\ UNCHANGED nextTok
          [] a = "200" ->
                /\ nextTok < MaxTok
                /\ LET new == AccessToken(calls[c].rtok.owner, nextTok + 1)
                   IN /\ nextTok' = nextTok + 1
                      /\ localStorage' = StoreRefreshed(localStorage, new)
                      /\ calls' = [calls EXCEPT ![c] =
                                     [@ EXCEPT !.pc = "await2",
                                               !.token = RetryBearer(@, new),
                                               !.sends = @ + 1]]
    /\ UNCHANGED <<user, login, loginError, accessExpired, refreshExpired, nextRef>>
    /\ UNCHANGED <<search, registerVars, statusVars, pageVars>>

\* lines 18-34: the response to the retried request arrives
ApiFetchRetryResponse(c) ==
    /\ calls[c].pc = "await2"
    /\ \E s \in ProtectedAnswers(calls[c].token) :
        IF s = "network"
        THEN calls' = [calls EXCEPT ![c] = Reject(@)]
        ELSE calls' = [calls EXCEPT ![c] = AfterRetry(@, s)]
    /\ UNCHANGED <<localStorage, user, login, loginError, tokenVars>>
    /\ UNCHANGED <<search, registerVars, statusVars, pageVars>>

\* the application call site takes the result (or the exception)
ApiFetchReturn(c) ==
    /\ c \in AppCallers
    /\ calls[c].pc = "done"
    /\ calls' = [calls EXCEPT ![c] = IdleCall]
    /\ UNCHANGED <<localStorage, user, login, loginError, tokenVars>>
    /\ UNCHANGED <<search, registerVars, statusVars, pageVars>>

\* ------------------------------------------------------------------ server: login
\* an absent row of the users table
NoAccount == [email |-> "null", password |-> "null", verified |-> FALSE, linkExpired |-> FALSE]

\* (spec 4.1) login(username, password): AuthError if the credentials are invalid
\* or the email is unverified, the latter with its own error detail whatever
\* the password is
LoginAnswer(username, password) ==
    IF accounts[username] = NoAccount THEN "Incorrect username or password"
    ELSE IF ~accounts[username].verified THEN "Email not verified"
    ELSE IF accounts[username].password # password THEN "Incorrect username or password"
    ELSE "ok"

\* ------------------------------------------------------------------ MusicProvider: the load
\* a load of the status list that has not ended.  pc: "effect" while the
\* effect of a render with a new user has yet to run, then the position of
\* its apiFetch; user: the user of that render; bearer: the Authorization
\* header of the request in flight; rtok: the refresh token in the body of
\* the /refresh request in flight; sends: the requests apiFetch has sent for
\* the load; items: the rows answered
NoLoads == EmptyBag
PendingLoad(u) ==
    [pc |-> "effect", user |-> u, bearer |-> NoToken, rtok |-> NoToken,
     sends |-> 0, items |-> <<>>]

\* MusicContext.tsx lines 34-35, 40: setUser makes a render whose `user` has
\* changed, and React runs the effect of that render after it: nothing to
\* do without a user.  The effect has no cleanup: the loads started before
\* go on
LoadStatuses(u, loads) ==
    IF u = NoUser THEN loads ELSE loads (+) SetToBag({PendingLoad(u)})

\* a load in flight moves on, or ends
LoadMoves(loads, l, next) == (loads (-) SetToBag({l})) (+) SetToBag({next})
LoadEnds(loads, l) == loads (-) SetToBag({l})

\* ------------------------------------------------------------------ AuthProvider
IdleLogin == [pc |-> "idle", username |-> NoUser, password |-> "null"]

\* AuthContext.tsx lines 33-38: the Error login() throws for a non-OK response
LoginFailure_generic(detail) == "Invalid username or password"
LoginFailure(detail) ==
    IF detail = "Email not verified"
    THEN "Please verify your email before logging in."
    ELSE "Invalid username or password"

\* login/page.tsx lines 24-29: the banner text for what login() threw: an
\* Error's message, else the error body's detail, else the fallback text
BannerFor(error) ==
    CASE error = "network" -> "Failed to fetch"
      [] error = "401" -> "Could not validate credentials"
      [] OTHER -> "Your credentials don't match. It's probably attributable to human error."

\* login/page.tsx lines 17-22, AuthContext.tsx lines 23-28: submit the form
LoginSubmit(username, password) ==
    /\ login.pc = "idle"
    /\ loginError' = NoMsg
    /\ login' = [pc |-> "await", username |-> username, password |-> password]
    /\ UNCHANGED <<localStorage, user, calls, tokenVars>>
    /\ UNCHANGED <<search, registerVars, statusVars, pageVars>>

\* AuthContext.tsx lines 30-43: the answer to POST /login arrives; on success
\* both tokens are stored and apiFetch("/me") sends its first attempt
LoginResponse ==
    /\ login.pc = "await"
    /\ \E a \in {LoginAnswer(login.username, login.password), "network"} :
        IF a = "ok"
        THEN /\ nextTok < MaxTok
             /\ nextRef < MaxRef
             /\ LET at == AccessToken(login.username, nextTok + 1)
                    rt == RefreshTokenOf(login.username, nextRef + 1)
                IN /\ nextTok' = nextTok + 1
                   /\ nextRef' = nextRef + 1
                   /\ UNCHANGED <<accessExpired, refreshExpired>>
                   /\ localStorage' = [access_token |-> at, refresh_token |-> rt]
                   /\ calls' = [calls EXCEPT !["login"] = FirstAttempt(localStorage')]
                   /\ login' = [login EXCEPT !.pc = "me"]
                   /\ UNCHANGED loginError
        ELSE /\ loginError' = IF a = "network" THEN BannerFor(a) ELSE LoginFailure(a)
             /\ login' = IdleLogin
             /\ UNCHANGED <<localStorage, calls, tokenVars>>
    /\ UNCHANGED user
    /\ UNCHANGED <<search, registerVars, statusVars, pageVars>>

\* AuthContext.tsx lines 43-44, login/page.tsx lines 23-34: /me has answered;
\* the server resolved the request's bearer to its user
LoginMe ==
    /\ login.pc = "me"
    /\ calls["login"].pc = "done"
    /\ IF calls["login"].result = "ok"
       THEN /\ user' = calls["login"].token.owner
            /\ statusLoads' = LoadStatuses(user', statusLoads)
            /\ UNCHANGED loginError
       ELSE /\ loginError' = BannerFor(calls["login"].status)
            /\ UNCHANGED <<user, statusLoads>>
    /\ login' = IdleLogin
    /\ calls' = [calls EXCEPT !["login"] = IdleCall]
    /\ UNCHANGED <<localStorage, tokenVars>>
    /\ UNCHANGED <<search, registerVars, shelfVars, pageVars>>

\* login/page.tsx lines 31 and 74: the banner is cleared by the timer set
\* when it was shown, or by its dismiss button
ClearLoginError ==
    /\ loginError # NoMsg
    /\ loginError' = NoMsg
    /\ UNCHANGED <<localStorage, user, calls, login, tokenVars>>
    /\ UNCHANGED <<search, registerVars, statusVars, pageVars>>

\* AuthContext.tsx lines 60-64
Logout ==
    /\ localStorage' = [access_token |-> NoToken, refresh_token |-> NoToken]
    /\ user' = NoUser
    /\ UNCHANGED <<calls, login, loginError, tokenVars>>
    /\ UNCHANGED <<search, registerVars, statusVars, pageVars>>

\* (spec 3) the oldest valid access token reaches its expiry
ExpireAccess ==
    /\ accessExpired < nextTok
    /\ accessExpired' = accessExpired + 1
    /\ UNCHANGED <<localStorage, user, calls, login, loginError,
                   refreshExpired, nextTok, nextRef>>
    /\ UNCHANGED <<search, registerVars, statusVars, pageVars>>

\* (spec 3) the oldest valid refresh token reaches its expiry
ExpireRefresh ==
    /\ refreshExpired < nextRef
    /\ refreshExpired' = refreshExpired + 1
    /\ UNCHANGED <<localStorage, user, calls, login, loginError,
                   accessExpired, nextTok, nextRef>>
    /\ UNCHANGED <<search, registerVars, statusVars, pageVars>>

\* ------------------------------------------------------------------ search page
\* what the catalog proxy finds for a query
Catalog == {"blonde"}

\* search/page.tsx lines 90-92: the request of handleSearch, a plain fetch()
\* with no Authorization header
SearchRequest_bearer(ls) ==
    [path |-> "/spotify/search", bearer |-> ls.access_token]
SearchRequest(ls) ==
    [path |-> "/spotify/search", bearer |-> NoToken]

IdleSearch == [pc |-> "idle", req |-> [path |-> "none", bearer |-> NoToken]]
\* search/page.tsx line 86; failed tells that the request just answered was
\* rejected, answered non-OK or with a body that does not parse; error is an
\* exception that left handleSearch
InitSearch == [pc |-> "idle", req |-> IdleSearch.req, results |-> {},
               failed |-> FALSE, error |-> "none"]

\* search/page.tsx lines 93-109: the page after the answer: the items of a 200,
\* the empty list for a non-OK answer, a rejected fetch or a body that does
\* not parse
SearchOutcome_throw(answer, items) ==
    [results |-> IF answer = "200" THEN items ELSE {},
     error |-> IF answer \in {"network", "200-malformed"} THEN answer ELSE "none"]
SearchOutcome(answer, items) ==
    [results |-> IF answer = "200" THEN items ELSE {}, error |-> "none"]

\* what the catalog proxy can answer
CatalogAnswers == {"200", "200-malformed", "500", "network"}

\* search/page.tsx lines 88-92
HandleSearch ==
    /\ search.pc = "idle"
    /\ search' = [search EXCEPT !.pc = "await", !.failed = FALSE,
                                !.req = SearchRequest(localStorage)]
    /\ UNCHANGED <<sessionVars, registerVars, statusVars, pageVars>>

\* search/page.tsx lines 93-109
HandleSearchResponse ==
    /\ search.pc = "await"
    /\ \E a \in CatalogAnswers, items \in SUBSET Catalog :
        LET out == SearchOutcome(a, items)
        IN search' = [search EXCEPT !.pc = "idle", !.req = IdleSearch.req,
                                    !.failed = (a # "200"),
                                    !.results = out.results, !.error = out.error]
    /\ UNCHANGED <<sessionVars, registerVars, statusVars, pageVars>>

\* ------------------------------------------------------------------ home page
\* albums of the year as the catalog proxy lists them, with their release day
HomeCatalog == {[id |-> "blonde", release_date |-> 2],
                [id |-> "damn", release_date |-> 1],
                [id |-> "igor", release_date |-> 2],
                [id |-> "sos", release_date |-> 3]}

\* the item lists the proxy can answer with: any order, no album twice
HomeItems ==
    {<<>>} \cup {<<a>> : a \in HomeCatalog}
    \cup {s \in HomeCatalog \X HomeCatalog : s[1] # s[2]}
    \cup {s \in HomeCatalog \X HomeCatalog \X HomeCatalog :
             s[1] # s[2] /\ s[1] # s[3] /\ s[2] # s[3]}

\* page.tsx lines 31-33: Array.prototype.sort with (a, b) => date(b) - date(a):
\* newest first, albums of the same day in their given order (the sort is stable)
RECURSIVE InsertByDate(_, _)
InsertByDate(sorted, a) ==
    IF sorted = <<>> THEN <<a>>
    ELSE IF Head(sorted).release_date < a.release_date THEN <<a>> \o sorted
    ELSE <<Head(sorted)>> \o InsertByDate(Tail(sorted), a)
RECURSIVE SortNewestFirst(_)
SortNewestFirst(items) ==
    IF items = <<>> THEN <<>>
    ELSE InsertByDate(SortNewestFirst(SubSeq(items, 1, Len(items) - 1)), items[Len(items)])

\* page.tsx lines 35-40: the cards keep the ids
UiAlbums(items) == [i \in 1..Len(items) |-> items[i].id]

\* page.tsx lines 20-44: what getAlbums returns for an answer
GetAlbumsOutcome(answer, items) ==
    [albums |-> IF answer = "200" THEN UiAlbums(SortNewestFirst(items)) ELSE <<>>,
     error |-> "none"]

InitHome == [pc |-> "idle", albums |-> <<>>, status |-> "none", error |-> "none"]

\* page.tsx lines 47-48, 20-25: the home page is requested: getAlbums fetches
GetAlbums ==
    /\ home.pc = "idle"
    /\ home' = [InitHome EXCEPT !.pc = "await"]
    /\ UNCHANGED <<sessionVars, search, registerVars, statusVars, socialVars, reviewVars>>

\* page.tsx lines 26-43, 50-69: the answer arrives and the page is rendered
GetAlbumsResponse ==
    /\ home.pc = "await"
    /\ \E a \in CatalogAnswers, items \in HomeItems :
        LET out == GetAlbumsOutcome(a, items)
        IN home' = [pc |-> "idle", albums |-> out.albums, status |-> a, error |-> out.error]
    /\ UNCHANGED <<sessionVars, search, registerVars, statusVars, socialVars, reviewVars>>

\* ------------------------------------------------------------------ server: register, verify
\* text is a sequence of words; a word contains another as in JavaScript's
\* String.prototype.includes, over the vocabulary of the messages in use
Lower(word) ==
    CASE word = "Username" -> "username"
      [] word = "Email" -> "email"
      [] word = "Passwords" -> "passwords"
      [] word = "Password" -> "password"
      [] OTHER -> word
WordIncludes(word, part) ==
    \/ word = part
    \/ word = "passwords" /\ part = "password"
    \/ word = "confirm_password" /\ part \in {"password", "confirm"}
TextIncludes(text, part) == \E i \in 1..Len(text) : WordIncludes(text[i], part)
ToLowerCase(text) == [i \in 1..Len(text) |-> Lower(text[i])]
NoText == <<>>

\* what the register form can submit: a username that passes or ("") fails the
\* field constraints, likewise the password
RegUsernames == Users \cup {""}
RegPasswords == Passwords \cup {""}

\* (spec 4.1, 7) the field-scoped issues of a register request, in field order
Issue(field, msg) == [loc |-> <<"body", field>>, msg |-> msg]
RegisterIssues(req) ==
    (IF req.username = "" THEN <<Issue("username", <<"String", "too", "short">>)>> ELSE <<>>)
    \o (IF req.email \notin Emails
        THEN <<Issue("email", <<"not", "a", "valid", "email", "address">>)>> ELSE <<>>)
    \o (IF req.password = "" THEN <<Issue("password", <<"String", "too", "short">>)>> ELSE <<>>)
    \o (IF req.password # req.confirm_password
        THEN <<Issue("confirm_password", <<"Passwords", "do", "not", "match">>)>>
        ELSE <<>>)

\* (spec 4.1) register: ValidationError with field-scoped messages on a
\* mismatch or a broken field constraint, an error on a duplicate username or
\* email, otherwise success
RegisterAnswer(req) ==
    IF RegisterIssues(req) # <<>>
    THEN [ok |-> FALSE, kind |-> "array", issues |-> RegisterIssues(req), text |-> NoText]
    ELSE IF accounts[req.username] # NoAccount
    THEN [ok |-> FALSE, kind |-> "string", issues |-> <<>>,
          text |-> <<"Username", "already", "registered">>]
    ELSE IF \E u \in Users : accounts[u].email = req.email
    THEN [ok |-> FALSE, kind |-> "string", issues |-> <<>>,
          text |-> <<"Email", "already", "registered">>]
    ELSE [ok |-> TRUE, kind |-> "none", issues |-> <<>>, text |-> NoText]

\* (spec 4.1) on success register creates an unverified User
NewAccount(req) ==
    [email |-> req.email, password |-> req.password, verified |-> FALSE,
     linkExpired |-> FALSE]

\* (spec 4.1) verify(token): one of success, already_verified, expired, invalid;
\* the token of the verification link names its account
VerifyTokens == Users \cup {"bogus"}
VerifyAnswer(token) ==
    IF token \notin Users \/ accounts[token] = NoAccount THEN "invalid"
    ELSE IF accounts[token].verified THEN "already_verified"
    ELSE IF accounts[token].linkExpired THEN "expired"
    ELSE "success"

\* ------------------------------------------------------------------ register page
NoErrors == [username |-> NoText, password |-> NoText, confirm_password |-> NoText]
NoRequest == [username |-> "", email |-> "null", password |-> "", confirm_password |-> ""]
IdleForm == [pc |-> "idle", req |-> NoRequest, errors |-> NoErrors, pushed |-> FALSE]

\* Array.prototype.includes on an issue's loc
LocIncludes(loc, name) == \E i \in 1..Len(loc) : loc[i] = name
LocIncludes_substring(loc, name) == \E i \in 1..Len(loc) : WordIncludes(loc[i], name)

\* register/page.tsx lines 32-42: the loop over err.detail; a later issue of
\* a field overwrites an earlier one
RECURSIVE IssueErrors(_, _)
IssueErrors(issues, acc) ==
    IF issues = <<>> THEN acc
    ELSE LET issue == Head(issues)
             a1 == IF LocIncludes(issue.loc, "username")
                   THEN [acc EXCEPT !.username = issue.msg] ELSE acc
             a2 == IF LocIncludes(issue.loc, "password")
                      /\ ~LocIncludes(issue.loc, "confirm_password")
                   THEN [a1 EXCEPT !.password = issue.msg] ELSE a1
             a3 == IF LocIncludes(issue.loc, "confirm_password")
                   THEN [a2 EXCEPT !.confirm_password = issue.msg] ELSE a2
         IN IssueErrors(Tail(issues), a3)

\* the same loop, matching the field names as substrings
RECURSIVE IssueErrors_substring(_, _)
IssueErrors_substring(issues, acc) ==
    IF issues = <<>> THEN acc
    ELSE LET issue == Head(issues)
             a1 == IF LocIncludes_substring(issue.loc, "username")
                   THEN [acc EXCEPT !.username = issue.msg] ELSE acc
             a2 == IF LocIncludes_substring(issue.loc, "password")
                   THEN [a1 EXCEPT !.password = issue.msg] ELSE a1
             a3 == IF LocIncludes_substring(issue.loc, "confirm_password")
                   THEN [a2 EXCEPT !.confirm_password = issue.msg] ELSE a2
         IN IssueErrors_substring(Tail(issues), a3)

\* register/page.tsx lines 28-56: the field errors for what register() threw
FieldErrors_substring(err) ==
    IF err.kind = "array" THEN IssueErrors_substring(err.issues, NoErrors)
    ELSE NoErrors
FieldErrors(err) ==
    IF err.kind = "array" THEN IssueErrors(err.issues, NoErrors)
    ELSE IF err.kind = "string"
    THEN IF TextIncludes(ToLowerCase(err.text), "username")
         THEN [NoErrors EXCEPT !.username = err.text]
         ELSE IF TextIncludes(ToLowerCase(err.text), "password")
         THEN [NoErrors EXCEPT !.password = err.text]
         ELSE IF TextIncludes(ToLowerCase(err.text), "confirm")
         THEN [NoErrors EXCEPT !.confirm_password = err.text]
         ELSE NoErrors
    ELSE [NoErrors EXCEPT !.username = <<"Registration", "failed">>]

\* a parameter the caller did not pass: JSON.stringify leaves the key out of
\* the body
Absent == "undefined"

\* AuthContext.tsx lines 47-52: register(username, email, password,
\* confirmPassword) posts its four parameters
Register(username, email, password, confirmPassword) ==
    /\ regForm.pc = "idle"
    /\ regForm' = [pc |-> "await",
                   req |-> [username |-> username, email |-> email,
                            password |-> password, confirm_password |-> confirmPassword],
                   errors |-> NoErrors, pushed |-> FALSE]
    /\ UNCHANGED <<accounts, verifyPage, lastVerify>>
    /\ UNCHANGED <<sessionVars, search, statusVars, pageVars, boot>>

\* register/page.tsx lines 21-26: the form has a username, a password and a
\* confirm-password field and calls register(username, password,
\* confirmPassword): the password is posted as the email, the confirmation
\* as the password, and no confirm_password
RegisterSubmit(username, password, confirmPassword) ==
    /\ regForm.pc = "idle"
    /\ Register(username, password, confirmPassword, Absent)

\* AuthContext.tsx lines 54-57: what register() does with the answer: it
\* returns the body, or throws it; it stores nothing and sets no user
RegisterReturn_autologin(ls, answer, req) ==
    IF answer.ok
    THEN [ls EXCEPT !.access_token = AccessToken(req.username, 1),
                    !.refresh_token = RefreshTokenOf(req.username, 1)]
    ELSE ls
RegisterReturn(ls, answer, req) == ls

\* AuthContext.tsx lines 54-57, register/page.tsx lines 26-57: the answer to
\* POST /register arrives (or fetch() rejects)
RegisterResponse ==
    /\ regForm.pc = "await"
    /\ \E net \in BOOLEAN :
        LET answer == IF net
                      THEN [ok |-> FALSE, kind |-> "other", issues |-> <<>>, text |-> NoText]
                      ELSE RegisterAnswer(regForm.req)
        IN /\ accounts' = IF answer.ok
                          THEN [accounts EXCEPT ![regForm.req.username] = NewAccount(regForm.req)]
                          ELSE accounts
           /\ localStorage' = RegisterReturn(localStorage, answer, regForm.req)
           /\ regForm' = [regForm EXCEPT !.pc = "idle",
                            !.errors = IF answer.ok THEN NoErrors ELSE FieldErrors(answer),
                            !.pushed = answer.ok]
    /\ UNCHANGED <<verifyPage, lastVerify>>
    /\ UNCHANGED <<user, calls, login, loginError, tokenVars, search, statusVars, pageVars,
                   boot>>

\* ------------------------------------------------------------------ verify page
IdleVerify == [pc |-> "idle", token |-> "null", status |-> "null"]

\* part_003 line 74: the status shown for a response body
ShownStatus_ok(answered, status) == IF answered THEN "success" ELSE "error"
ShownStatus(answered, status) == IF answered THEN status ELSE "error"

\* part_003 lines 65-71: the page opens with ?token=...; without a token it
\* sends nothing
VerifyOpen(token) ==
    /\ verifyPage.pc = "idle"
    /\ verifyPage' = [pc |-> "await", token |-> token, status |-> "null"]
    /\ UNCHANGED <<accounts, regForm, lastVerify>>
    /\ UNCHANGED <<sessionVars, search, statusVars, pageVars, boot>>

\* part_003 lines 72-76: the answer to GET /verify arrives, or its body does
\* not parse, or fetch() rejects
VerifyResponse ==
    /\ verifyPage.pc = "await"
    /\ \E answered \in BOOLEAN :
        LET result == VerifyAnswer(verifyPage.token)
        IN /\ accounts' = IF answered /\ result = "success"
                          THEN [accounts EXCEPT ![verifyPage.token].verified = TRUE]
                          ELSE accounts
           /\ lastVerify' = IF answered THEN result ELSE lastVerify
           /\ verifyPage' = [pc |-> "idle", token |-> IdleVerify.token,
                              status |-> ShownStatus(answered, result)]
    /\ UNCHANGED regForm
    /\ UNCHANGED <<sessionVars, search, statusVars, pageVars, boot>>

\* (spec 4.1) the verification link of an account reaches its expiry
ExpireLink(u) ==
    /\ accounts[u] # NoAccount
    /\ ~accounts[u].linkExpired
    /\ accounts' = [accounts EXCEPT ![u].linkExpired = TRUE]
    /\ UNCHANGED <<regForm, verifyPage, lastVerify>>
    /\ UNCHANGED <<sessionVars, search, statusVars, pageVars, boot>>

\* ------------------------------------------------------------------ status rows
Albums == {"blonde"}
\* MusicProvider calls that can be in flight at the same time
Slots == {1, 2}

Row(id, u, album, status, fav) ==
    [id |-> id, user |-> u, spotify_album_id |-> album, status |-> status,
     is_favorite |-> fav]
NoRow == Row(0, NoUser, "null", "null", FALSE)
\* req: the body of the request in flight; found: the row id the request or
\* the server's lookup names; row: the row answered; then: the addStatus
\* request the calling button makes once its removeStatus has returned
IdleOp == [pc |-> "idle", kind |-> "none", user |-> NoUser, req |-> NoRow, found |-> 0,
           row |-> NoRow, then |-> NoRow, bearer |-> NoToken]
FailedOp == [IdleOp EXCEPT !.pc = "failed"]

\* api.ts lines 3-12: apiFetch sends the request with the access token stored
\* at that moment
WithBearer(op, ls) == [op EXCEPT !.bearer = ls.access_token]

\* the rows of (u, album)
RowsOf(rows, u, album) == {r \in rows : r.user = u /\ r.spotify_album_id = album}

\* the sources declare user_album_status twice: db/schema.sql lines 33-39
\* without a unique constraint, part_000 lines 33-40 with UNIQUE(user_id,
\* album_id); the migrations start.sh applies are not in the sources, so the
\* table of a database is either
Schemas == {"schema.sql", "part_000"}

\* whether the table accepts a new row: under part_000 line 39 only if no row
\* of the same user and album is in it, under db/schema.sql always
UniqueAccepts(sch, rows, row) ==
    sch = "schema.sql" \/ RowsOf(rows, row.user, row.spotify_album_id) = {}

\* MusicContext.tsx lines 47-56: the body of POST /statuses
AddStatusRequest(u, albumId, status, is_favorite) ==
    Row(0, u, albumId, status, is_favorite)

\* MusicContext.tsx lines 42-56: addStatus returns at once without a user,
\* else posts the status
AddStatus(k, albumId, status, is_favorite) ==
    /\ user # NoUser
    /\ statusOps[k].pc = "idle"
    /\ statusOps' = [statusOps EXCEPT ![k] =
                       WithBearer([IdleOp EXCEPT !.pc = "sent", !.kind = "add",
                                                 !.user = user,
                                                 !.req = AddStatusRequest(user, albumId,
                                                                          status, is_favorite)],
                                  localStorage)]
    /\ UNCHANGED <<srvStatuses, nextRowId, statuses>>
    /\ UNCHANGED <<sessionVars, search, registerVars, pageVars, lastPress, statusLoads, schema>>

\* (spec 4.2, 5) setStatus, first half of the request's transaction: look up
\* the row of (user, album)
ServeSetStatusLookup(k) ==
    /\ statusOps[k].pc = "sent"
    /\ statusOps[k].kind = "add"
    /\ LET mine == RowsOf(srvStatuses, statusOps[k].user, statusOps[k].req.spotify_album_id)
       IN IF ~Authenticate(statusOps[k].bearer)
          THEN statusOps' = [statusOps EXCEPT ![k] = FailedOp]
          ELSE statusOps' = [statusOps EXCEPT ![k].pc = "looked",
                               ![k].found = IF mine = {} THEN 0
                                            ELSE (CHOOSE r \in mine : TRUE).id]
    /\ UNCHANGED <<srvStatuses, nextRowId, statuses>>
    /\ UNCHANGED <<sessionVars, search, registerVars, pageVars, lastPress, statusLoads, schema>>

\* (spec 4.2, 5) setStatus, second half: replace the row found, else insert a
\* new one, which the table's unique constraint may refuse; the answer is the
\* resulting row
ServeSetStatusWrite(k) ==
    /\ statusOps[k].pc = "looked"
    /\ LET op == statusOps[k]
           old == {r \in srvStatuses : r.id = op.found}
           new == [op.req EXCEPT !.id = IF op.found = 0 THEN nextRowId + 1 ELSE op.found]
       IN IF op.found # 0
          THEN IF old = {}
               THEN /\ statusOps' = [statusOps EXCEPT ![k] = FailedOp]
                    /\ UNCHANGED <<srvStatuses, nextRowId>>
               ELSE /\ srvStatuses' = (srvStatuses \ old) \cup {new}
                    /\ statusOps' = [statusOps EXCEPT ![k].pc = "served", ![k].row = new]
                    /\ UNCHANGED nextRowId
          ELSE /\ nextRowId < MaxRows
               /\ IF UniqueAccepts(schema, srvStatuses, new)
                  THEN /\ srvStatuses' = srvStatuses \cup {new}
                       /\ nextRowId' = nextRowId + 1
                       /\ statusOps' = [statusOps EXCEPT ![k].pc = "served", ![k].row = new]
                  ELSE /\ statusOps' = [statusOps EXCEPT ![k] = FailedOp]
                       /\ UNCHANGED <<srvStatuses, nextRowId>>
    /\ UNCHANGED statuses
    /\ UNCHANGED <<sessionVars, search, registerVars, pageVars, lastPress, statusLoads, schema>>

\* api.ts lines 29-32: the request is refused or lost before the server acts,
\* or its answer is lost: apiFetch throws
StatusRequestFails(k) ==
    /\ statusOps[k].pc \in {"sent", "served"}
    /\ statusOps' = [statusOps EXCEPT ![k] = FailedOp]
    /\ UNCHANGED <<srvStatuses, nextRowId, statuses>>
    /\ UNCHANGED <<sessionVars, search, registerVars, pageVars, lastPress, statusLoads, schema>>

\* MusicContext.tsx line 57: the new status is appended to the local list
AddStatusReturn(k) ==
    /\ statusOps[k].pc = "served"
    /\ statusOps[k].kind = "add"
    /\ Len(statuses) < MaxList
    /\ statuses' = Append(statuses, statusOps[k].row)
    /\ statusOps' = [statusOps EXCEPT ![k] = IdleOp]
    /\ UNCHANGED <<srvStatuses, nextRowId>>
    /\ UNCHANGED <<sessionVars, search, registerVars, pageVars, lastPress, statusLoads, schema>>

\* the exception of apiFetch leaves addStatus / removeStatus: the local list
\* is not touched
StatusThrows(k) ==
    /\ statusOps[k].pc = "failed"
    /\ statusOps' = [statusOps EXCEPT ![k] = IdleOp]
    /\ UNCHANGED <<srvStatuses, nextRowId, statuses>>
    /\ UNCHANGED <<sessionVars, search, registerVars, pageVars, lastPress, statusLoads, schema>>

\* MusicContext.tsx lines 73-74: removeStatus(statusId), which looks neither
\* at the user nor at the local list before it sends DELETE /statuses/{id}
RemoveStatus(k, statusId) ==
    /\ statusOps[k].pc = "idle"
    /\ statusOps' = [statusOps EXCEPT ![k] =
                       WithBearer([IdleOp EXCEPT !.pc = "sent", !.kind = "remove",
                                                 !.user = user, !.found = statusId],
                                  localStorage)]
    /\ UNCHANGED <<srvStatuses, nextRowId, statuses>>
    /\ UNCHANGED <<sessionVars, search, registerVars, pageVars, lastPress, statusLoads, schema>>

\* (spec 4.2) removeStatus: delete the caller's row.  What the server answers
\* when it has no such row is not specified: either an error status (the
\* request then stays recorded as the refused removeStatus) or success
ServeRemoveStatus(k) ==
    /\ statusOps[k].pc = "sent"
    /\ statusOps[k].kind = "remove"
    /\ LET old == {r \in srvStatuses : r.id = statusOps[k].found
                                   /\ r.user = statusOps[k].bearer.owner}
       IN IF ~Authenticate(statusOps[k].bearer)
          THEN /\ statusOps' = [statusOps EXCEPT ![k].pc = "failed"]
               /\ UNCHANGED srvStatuses
          ELSE IF old = {}
          THEN /\ \E answer \in {"failed", "served"} :
                    statusOps' = [statusOps EXCEPT ![k].pc = answer]
               /\ UNCHANGED srvStatuses
          ELSE /\ srvStatuses' = srvStatuses \ old
               /\ statusOps' = [statusOps EXCEPT ![k].pc = "served"]
    /\ UNCHANGED <<nextRowId, statuses>>
    /\ UNCHANGED <<sessionVars, search, registerVars, pageVars, lastPress, statusLoads, schema>>

\* Array.prototype.filter with s.id !== statusId
RECURSIVE WithoutId(_, _)
WithoutId(list, statusId) ==
    IF list = <<>> THEN <<>>
    ELSE IF Head(list).id = statusId THEN WithoutId(Tail(list), statusId)
    ELSE <<Head(list)>> \o WithoutId(Tail(list), statusId)

\* MusicContext.tsx lines 47-56 as called from AlbumActionButtons.tsx lines
\* 36 and 45 after the awaited removeStatus: the addStatus called is the one
\* of the render whose button was pressed, with the user of that render; it
\* returns at once without a user, else posts the status with the token
\* stored now
AddAfterRemove(op, ls) ==
    IF op.then = NoRow \/ op.user = NoUser
    THEN IdleOp
    ELSE WithBearer([IdleOp EXCEPT !.pc = "sent", !.kind = "add", !.user = op.user,
                                   !.req = op.then], ls)

\* MusicContext.tsx line 75: the row is filtered out of the local list; a
\* button that removed the row to replace it goes on to its addStatus
RemoveStatusReturn(k) ==
    /\ statusOps[k].pc = "served"
    /\ statusOps[k].kind = "remove"
    /\ statuses' = WithoutId(statuses, statusOps[k].found)
    /\ statusOps' = [statusOps EXCEPT ![k] = AddAfterRemove(statusOps[k], localStorage)]
    /\ UNCHANGED <<srvStatuses, nextRowId>>
    /\ UNCHANGED <<sessionVars, search, registerVars, pageVars, lastPress, statusLoads, schema>>

\* ------------------------------------------------------------------ the album buttons
\* MusicContext.tsx lines 60-67: updateStatus sends PATCH /statuses/{id}
UpdateOp(u, statusId, status, is_favorite) ==
    [IdleOp EXCEPT !.pc = "sent", !.kind = "update", !.user = u, !.found = statusId,
                   !.req = Row(statusId, u, "null", status, is_favorite)]

\* (spec 4.2) updateStatus(statusId, {status, is_favorite}): the caller must
\* own the row; the row keeps its id, user and album
ServeUpdateStatus(k) ==
    /\ statusOps[k].pc = "sent"
    /\ statusOps[k].kind = "update"
    /\ LET op == statusOps[k]
           old == {r \in srvStatuses : r.id = op.found /\ r.user = op.bearer.owner}
       IN IF old = {} \/ ~Authenticate(op.bearer)
          THEN /\ statusOps' = [statusOps EXCEPT ![k] = FailedOp]
               /\ UNCHANGED srvStatuses
          ELSE LET r == CHOOSE x \in old : TRUE
                   new == [r EXCEPT !.status = op.req.status,
                                    !.is_favorite = op.req.is_favorite]
               IN /\ srvStatuses' = (srvStatuses \ old) \cup {new}
                  /\ statusOps' = [statusOps EXCEPT ![k].pc = "served", ![k].row = new]
    /\ UNCHANGED <<nextRowId, statuses>>
    /\ UNCHANGED <<sessionVars, search, registerVars, pageVars, lastPress, statusLoads, schema>>

\* prev.map((s) => (s.id === statusId ? updated : s))
ReplaceId(list, statusId, updated) ==
    [i \in 1..Len(list) |-> IF list[i].id = statusId THEN updated ELSE list[i]]

\* MusicContext.tsx lines 68-70
UpdateStatusReturn(k) ==
    /\ statusOps[k].pc = "served"
    /\ statusOps[k].kind = "update"
    /\ statuses' = ReplaceId(statuses, statusOps[k].found, statusOps[k].row)
    /\ statusOps' = [statusOps EXCEPT ![k] = IdleOp]
    /\ UNCHANGED <<srvStatuses, nextRowId>>
    /\ UNCHANGED <<sessionVars, search, registerVars, pageVars, lastPress, statusLoads, schema>>

\* MusicContext.tsx lines 60-67: updateStatus(statusId, payload), which
\* looks neither at the user nor at the local list before it sends
UpdateStatus(k, statusId, status, is_favorite) ==
    /\ statusOps[k].pc = "idle"
    /\ statusOps' = [statusOps EXCEPT ![k] =
                       WithBearer(UpdateOp(user, statusId, status, is_favorite),
                                  localStorage)]
    /\ UNCHANGED <<srvStatuses, nextRowId, statuses>>
    /\ UNCHANGED <<sessionVars, search, registerVars, pageVars, lastPress, statusLoads, schema>>

\* the rows of a user as a list, by id
RECURSIVE RowsById(_)
RowsById(rows) ==
    IF rows = {} THEN <<>>
    ELSE LET first == CHOOSE r \in rows : \A q \in rows : r.id <= q.id
         IN <<first>> \o RowsById(rows \ {first})

\* MusicContext.tsx lines 36-37, api.ts lines 3-12: the effect runs: apiFetch
\* sends GET /users/{user.id}/statuses with the access token stored now
LoadStatusesFetch(l) ==
    /\ BagIn(l, statusLoads)
    /\ l.pc = "effect"
    /\ statusLoads' = LoadMoves(statusLoads, l,
                         [l EXCEPT !.pc = "sent", !.bearer = localStorage.access_token,
                                   !.sends = 1])
    /\ UNCHANGED shelfVars
    /\ UNCHANGED <<sessionVars, search, registerVars, pageVars>>

\* (spec 4.2) GET /users/{id}/statuses, first or retried: the rows of the
\* user, for a caller that authenticates
ServeLoadStatuses(l) ==
    /\ BagIn(l, statusLoads)
    /\ l.pc = "sent"
    /\ Authenticate(l.bearer)
    /\ statusLoads' = LoadMoves(statusLoads, l,
                         [l EXCEPT !.pc = "served",
                                   !.items = RowsById({r \in srvStatuses : r.user = l.user})])
    /\ UNCHANGED shelfVars
    /\ UNCHANGED <<sessionVars, search, registerVars, pageVars>>

\* api.ts lines 15-16 and 37-46: the load's first request is answered 401
\* and a refresh token is stored: refreshAccessToken runs up to its fetch()
\* of /refresh
LoadStatusesUnauthorized(l) ==
    /\ BagIn(l, statusLoads)
    /\ l.pc = "sent"
    /\ l.sends = 1
    /\ ~Authenticate(l.bearer)
    /\ ShouldRefresh("401")
    /\ localStorage.refresh_token # NoToken
    /\ statusLoads' = LoadMoves(statusLoads, l,
                         [l EXCEPT !.pc = "refreshing", !.bearer = NoToken,
                                   !.rtok = localStorage.refresh_token])
    /\ UNCHANGED shelfVars
    /\ UNCHANGED <<sessionVars, search, registerVars, pageVars>>

\* api.ts lines 17-26 and 42-52: the answer to the load's POST /refresh: a
\* new access token is stored and the load is sent again with it; without
\* one apiFetch throws the 401
LoadStatusesRefreshResponse(l) ==
    /\ BagIn(l, statusLoads)
    /\ l.pc = "refreshing"
    /\ \E a \in RefreshAnswers(l.rtok) :
        CASE a = "network" ->
                /\ statusLoads' = LoadEnds(statusLoads, l)
                /\ UNCHANGED <<localStorage, nextTok>>
          [] a = "401" ->
                /\ statusLoads' = LoadEnds(statusLoads, l)
                /\ localStorage' = RefreshFailed(localStorage)
                /\ UNCHANGED nextTok
          [] a = "200-nobody" ->
                /\ localStorage' = StoreRefreshed(localStorage, Undefined)
                /\ statusLoads' = LoadEnds(statusLoads, l)
                /\ UNCHANGED nextTok
          [] a = "200" ->
                /\ nextTok < MaxTok
                /\ LET new == AccessToken(l.rtok.owner, nextTok + 1)
                   IN /\ nextTok' = nextTok + 1
                      /\ localStorage' = StoreRefreshed(localStorage, new)
                      /\ statusLoads' = LoadMoves(statusLoads, l,
                                           [l EXCEPT !.pc = "sent",
                                                     !.bearer = RetryBearer(@, new),
                                                     !.rtok = NoToken,
                                                     !.sends = @ + 1])
    /\ UNCHANGED <<user, calls, login, loginError, accessExpired, refreshExpired, nextRef>>
    /\ UNCHANGED shelfVars
    /\ UNCHANGED <<search, registerVars, pageVars>>

\* MusicContext.tsx line 37, api.ts lines 5, 18, 29-32: apiFetch throws: a
\* fetch() that rejects, an error status other than a first 401 with a
\* refresh token stored, a lost answer; nothing catches it and the list is
\* left as it is
LoadStatusesThrows(l) ==
    /\ BagIn(l, statusLoads)
    /\ l.pc \in {"sent", "served"}
    /\ statusLoads' = LoadEnds(statusLoads, l)
    /\ UNCHANGED shelfVars
    /\ UNCHANGED <<sessionVars, search, registerVars, pageVars>>

\* MusicContext.tsx line 38: setStatuses(data.items) replaces the list
LoadStatusesReturn(l) ==
    /\ BagIn(l, statusLoads)
    /\ l.pc = "served"
    /\ statuses' = l.items
    /\ statusLoads' = LoadEnds(statusLoads, l)
    /\ UNCHANGED <<srvStatuses, nextRowId, statusOps, lastPress, schema>>
    /\ UNCHANGED <<sessionVars, search, registerVars, pageVars>>

\* AlbumActionButtons.tsx line 25: statuses.find((s) => s.spotify_album_id === albumId),
\* NoRow standing for undefined
RECURSIVE Find(_, _)
Find(list, albumId) ==
    IF list = <<>> THEN NoRow
    ELSE IF Head(list).spotify_album_id = albumId THEN Head(list)
    ELSE Find(Tail(list), albumId)

\* a status button that adds the pressed status without removing the row of
\* the other status first
StatusButton_addonly(u, current, albumId, status) ==
    IF current # NoRow /\ current.status = status
    THEN [IdleOp EXCEPT !.pc = "sent", !.kind = "remove", !.user = u,
                        !.found = current.id]
    ELSE [IdleOp EXCEPT !.pc = "sent", !.kind = "add", !.user = u,
                        !.req = AddStatusRequest(u, albumId, status, FALSE)]

\* AlbumActionButtons.tsx lines 31-47: a status button pressed on `current`:
\* the lit button removes the row; the other one removes the row, if any, and
\* then adds the status with addStatus's default is_favorite = false
StatusButton(u, current, albumId, status) ==
    IF current # NoRow /\ current.status = status
    THEN [IdleOp EXCEPT !.pc = "sent", !.kind = "remove", !.user = u,
                        !.found = current.id]
    ELSE IF current # NoRow
    THEN [IdleOp EXCEPT !.pc = "sent", !.kind = "remove", !.user = u,
                        !.found = current.id,
                        !.then = AddStatusRequest(u, albumId, status, FALSE)]
    ELSE [IdleOp EXCEPT !.pc = "sent", !.kind = "add", !.user = u,
                        !.req = AddStatusRequest(u, albumId, status, FALSE)]

\* AlbumActionButtons.tsx lines 49-60: the favorite button pressed on `current`
FavoriteButton(u, current, albumId) ==
    IF current = NoRow
    THEN [IdleOp EXCEPT !.pc = "sent", !.kind = "add", !.user = u,
                        !.req = AddStatusRequest(u, albumId, "want-to-listen", TRUE)]
    ELSE UpdateOp(u, current.id, current.status, ~current.is_favorite)

\* the status the request of a status button asks for: none when the lit
\* button removes the row
PressedStatus(op) ==
    IF op.kind = "add" THEN op.req.status
    ELSE IF op.then # NoRow THEN op.then.status
    ELSE "none"

\* AlbumActionButtons.tsx lines 20-22, 31-38: the buttons exist for a user only
ToggleWantToListen(k, albumId) ==
    /\ user # NoUser
    /\ statusOps[k].pc = "idle"
    /\ statusOps' = [statusOps EXCEPT ![k] =
                       WithBearer(StatusButton(user, Find(statuses, albumId), albumId,
                                               "want-to-listen"), localStorage)]
    /\ UNCHANGED <<srvStatuses, nextRowId, statuses>>
    /\ lastPress' = PressedStatus(statusOps'[k])
    /\ UNCHANGED <<sessionVars, search, registerVars, pageVars, statusLoads, schema>>

\* AlbumActionButtons.tsx lines 40-47
ToggleListened(k, albumId) ==
    /\ user # NoUser
    /\ statusOps[k].pc = "idle"
    /\ statusOps' = [statusOps EXCEPT ![k] =
                       WithBearer(StatusButton(user, Find(statuses, albumId), albumId,
                                               "listened"), localStorage)]
    /\ UNCHANGED <<srvStatuses, nextRowId, statuses>>
    /\ lastPress' = PressedStatus(statusOps'[k])
    /\ UNCHANGED <<sessionVars, search, registerVars, pageVars, statusLoads, schema>>

\* AlbumActionButtons.tsx lines 49-60
ToggleFavorite(k, albumId) ==
    /\ user # NoUser
    /\ statusOps[k].pc = "idle"
    /\ statusOps' = [statusOps EXCEPT ![k] =
                       WithBearer(FavoriteButton(user, Find(statuses, albumId), albumId),
                                  localStorage)]
    /\ UNCHANGED <<srvStatuses, nextRowId, statuses>>
    /\ UNCHANGED <<sessionVars, search, registerVars, pageVars, lastPress, statusLoads, schema>>

\* ------------------------------------------------------------------ follow edges
Pairs == Users \X Users

\* profile page line 25: useState(null); the fields of the profile that
\* toggleFollow reads and writes
NoProfile == [username |-> NoUser, is_following |-> FALSE, followers_count |-> 0]
\* who asked, whom to follow or unfollow, seen: the profileUser of the render
\* whose button was clicked
IdleFollow == [pc |-> "idle", kind |-> "none", who |-> NoUser, target |-> NoUser,
               seen |-> NoProfile]
\* srv: the follow served last, if no other follow or unfollow was served
\* since: the number of edges and of the followee's followers before it;
\* page: the profile shown before the follow answered last, if no other
\* answer or load changed the page since
NoLog == [srv |-> [who |-> NoUser, target |-> NoUser, edges |-> 0, followers |-> 0,
                   created |-> FALSE],
          page |-> NoProfile]

RECURSIVE EdgeCount(_, _)
EdgeCount(rows, pairs) ==
    IF pairs = {} THEN 0
    ELSE LET p == CHOOSE q \in pairs : TRUE
         IN rows[p] + EdgeCount(rows, pairs \ {p})
\* (spec 3) followers_count of a user: the edges that end in it
FollowersCount(rows, u) == EdgeCount(rows, {p \in Pairs : p[2] = u})

\* (spec 4.1) the user a request carrying `bearer` acts for
Caller(bearer) == IF Authenticate(bearer) THEN bearer.owner ELSE NoUser

\* (spec 3) "unique per ordered pair": the table accepts an edge only if the
\* pair has none
FollowAccepts(rows, a, b) == rows[<<a, b>>] = 0

\* (spec 4.2) GET /users/by-username/{username} as the caller sees it
ProfileOf(rows, viewer, u) ==
    [username |-> u,
     is_following |-> viewer # NoUser /\ rows[<<viewer, u>>] > 0,
     followers_count |-> FollowersCount(rows, u)]

\* by: what fetches the profile ("effect": the effect of lines 41-51,
\* "upload": handleFileChange); username: the profile asked for; bearer: the
\* Authorization header of the GET; data: the profile answered
NoFetch == [pc |-> "idle", by |-> "none", username |-> NoUser, bearer |-> NoToken,
            data |-> NoProfile]

\* profile page lines 41-44: the page is opened at /profile/u: GET
\* /users/by-username/u is sent (one fetch of the profile is followed at a
\* time)
LoadProfile(u) ==
    /\ profileLoad.pc = "idle"
    /\ profileLoad' = [NoFetch EXCEPT !.pc = "sent", !.by = "effect", !.username = u,
                                      !.bearer = localStorage.access_token]
    /\ UNCHANGED <<follows, followLog, profileUser, followOps, followButton>>
    /\ UNCHANGED <<sessionVars, search, registerVars, statusVars, reviewVars, home>>

\* profile page lines 38, 142-158, 201-207: the file input is rendered on
\* the logged-in user's own profile; a file chosen is posted with fetch(),
\* whose Authorization header is the access token stored (line 154)
HandleFileChange ==
    /\ profileUser # NoProfile
    /\ user = profileUser.username
    /\ profileLoad.pc = "idle"
    /\ profileLoad' = [NoFetch EXCEPT !.pc = "upload", !.by = "upload",
                                      !.username = profileUser.username,
                                      !.bearer = localStorage.access_token]
    /\ UNCHANGED <<follows, followLog, profileUser, followOps, followButton>>
    /\ UNCHANGED <<sessionVars, search, registerVars, statusVars, reviewVars, home>>

\* profile page lines 149-160: the POST has been answered, with whatever
\* status: GET /users/by-username/{profileUser.username} is sent; or fetch()
\* has rejected and handleFileChange ends with that exception
UploadAnswered ==
    /\ profileLoad.pc = "upload"
    /\ \/ profileLoad' = [profileLoad EXCEPT !.pc = "sent",
                                              !.bearer = localStorage.access_token]
       \/ profileLoad' = NoFetch
    /\ UNCHANGED <<follows, followLog, profileUser, followOps, followButton>>
    /\ UNCHANGED <<sessionVars, search, registerVars, statusVars, reviewVars, home>>

\* (spec 4.2) GET /users/by-username/{username} is answered with the profile
\* as the caller sees it
ServeProfile ==
    /\ profileLoad.pc = "sent"
    /\ profileLoad' = [profileLoad EXCEPT !.pc = "served",
                          !.data = ProfileOf(follows, Caller(profileLoad.bearer),
                                             profileLoad.username)]
    /\ UNCHANGED <<follows, followLog, profileUser, followOps, followButton>>
    /\ UNCHANGED <<sessionVars, search, registerVars, statusVars, reviewVars, home>>

\* api.ts lines 29-32: the request is refused or lost, or its answer is
\* lost: apiFetch throws
ProfileRequestFails ==
    /\ profileLoad.pc \in {"sent", "served"}
    /\ profileLoad' = [profileLoad EXCEPT !.pc = "failed", !.data = NoProfile]
    /\ UNCHANGED <<follows, followLog, profileUser, followOps, followButton>>
    /\ UNCHANGED <<sessionVars, search, registerVars, statusVars, reviewVars, home>>

\* profile page lines 45 and 161: setProfileUser with the profile answered
LoadProfileReturn ==
    /\ profileLoad.pc = "served"
    /\ profileUser' = profileLoad.data
    /\ followLog' = [followLog EXCEPT !.page = NoProfile]
    /\ profileLoad' = NoFetch
    /\ UNCHANGED <<follows, followOps, followButton>>
    /\ UNCHANGED <<sessionVars, search, registerVars, statusVars, reviewVars, home>>

\* profile page lines 46-48: the effect catches what apiFetch threw and sets
\* the profile to null; line 160: nothing catches it in handleFileChange and
\* the profile stays
LoadProfileThrows ==
    /\ profileLoad.pc = "failed"
    /\ profileUser' = IF profileLoad.by = "effect" THEN NoProfile ELSE profileUser
    /\ followLog' = IF profileLoad.by = "effect"
                    THEN [followLog EXCEPT !.page = NoProfile] ELSE followLog
    /\ profileLoad' = NoFetch
    /\ UNCHANGED <<follows, followOps, followButton>>
    /\ UNCHANGED <<sessionVars, search, registerVars, statusVars, reviewVars, home>>

\* profile page lines 38, 164-168, 264-266: the button is rendered unless the
\* profile is the logged-in user's; a click sends the request
ToggleFollow(k) ==
    /\ profileUser # NoProfile
    /\ user # profileUser.username
    /\ followOps[k].pc = "idle"
    /\ followOps' = [followOps EXCEPT ![k] =
                       [pc |-> "sent",
                        kind |-> IF profileUser.is_following THEN "unfollow"
                                 ELSE "follow",
                        who |-> Caller(localStorage.access_token),
                        target |-> profileUser.username, seen |-> profileUser]]
    /\ UNCHANGED <<follows, followLog, profileUser>>
    /\ UNCHANGED <<sessionVars, search, registerVars, statusVars, reviewVars, home, followButton, profileLoad>>

\* (spec 4.2) follow: self-follow fails with ValidationError, double-follow is
\* a no-op, else the edge is created
ServeFollow(k) ==
    /\ followOps[k].pc = "sent"
    /\ followOps[k].kind = "follow"
    /\ LET a == followOps[k].who
           b == followOps[k].target
       IN IF a = NoUser \/ a = b
          THEN /\ followOps' = [followOps EXCEPT ![k].pc = "failed"]
               /\ UNCHANGED <<follows, followLog>>
          ELSE /\ follows' = IF FollowAccepts(follows, a, b)
                             THEN [follows EXCEPT ![<<a, b>>] = @ + 1]
                             ELSE follows
               /\ followLog' = [followLog EXCEPT !.srv =
                                  [who |-> a, target |-> b,
                                   edges |-> EdgeCount(follows, Pairs),
                                   followers |-> FollowersCount(follows, b),
                                   created |-> follows[<<a, b>>] = 0]]
               /\ followOps' = [followOps EXCEPT ![k].pc = "served"]
    /\ UNCHANGED profileUser
    /\ UNCHANGED <<sessionVars, search, registerVars, statusVars, reviewVars, home, followButton, profileLoad>>

\* (spec 4.2) unfollow: delete the edge.  What the server answers when there
\* is no such edge is not specified: an error status or success
ServeUnfollow(k) ==
    /\ followOps[k].pc = "sent"
    /\ followOps[k].kind = "unfollow"
    /\ LET a == followOps[k].who
           b == followOps[k].target
       IN IF a = NoUser
          THEN /\ followOps' = [followOps EXCEPT ![k].pc = "failed"]
               /\ UNCHANGED follows
          ELSE IF follows[<<a, b>>] = 0
          THEN /\ \E answer \in {"failed", "served"} :
                    followOps' = [followOps EXCEPT ![k].pc = answer]
               /\ UNCHANGED follows
          ELSE /\ follows' = [follows EXCEPT ![<<a, b>>] = 0]
               /\ followOps' = [followOps EXCEPT ![k].pc = "served"]
    /\ followLog' = [followLog EXCEPT !.srv = NoLog.srv]
    /\ UNCHANGED profileUser
    /\ UNCHANGED <<sessionVars, search, registerVars, statusVars, reviewVars, home, followButton, profileLoad>>

\* api.ts lines 29-32: the request or its answer is lost: apiFetch throws
FollowRequestFails(k) ==
    /\ followOps[k].pc \in {"sent", "served"}
    /\ followOps' = [followOps EXCEPT ![k].pc = "failed"]
    /\ UNCHANGED <<follows, followLog, profileUser>>
    /\ UNCHANGED <<sessionVars, search, registerVars, statusVars, reviewVars, home, followButton, profileLoad>>

\* profile page lines 170-171: `...profileUser` and the fields computed from
\* it are those of the render whose button was clicked, not of the page as
\* it is when the answer arrives
Captured_current(op, current) == current
Captured(op, current) == op.seen

\* profile page lines 170-176
AfterToggle_nodecrement(profile) ==
    [profile EXCEPT !.is_following = ~profile.is_following,
                    !.followers_count = IF profile.is_following THEN @ ELSE @ + 1]
AfterToggle(profile) ==
    [profile EXCEPT !.is_following = ~profile.is_following,
                    !.followers_count = IF profile.is_following THEN @ - 1 ELSE @ + 1]

\* profile page lines 166-176: the request was answered OK
ToggleFollowReturn(k) ==
    /\ followOps[k].pc = "served"
    /\ profileUser' = AfterToggle(Captured(followOps[k], profileUser))
    /\ followLog' = [followLog EXCEPT !.page =
                       IF followOps[k].kind = "follow" THEN followOps[k].seen
                       ELSE NoProfile]
    /\ followOps' = [followOps EXCEPT ![k] = IdleFollow]
    /\ UNCHANGED follows
    /\ UNCHANGED <<sessionVars, search, registerVars, statusVars, reviewVars, home, followButton, profileLoad>>

\* profile page line 166: apiFetch throws, toggleFollow ends before
\* setProfileUser
ToggleFollowThrows(k) ==
    /\ followOps[k].pc = "failed"
    /\ followOps' = [followOps EXCEPT ![k] = IdleFollow]
    /\ UNCHANGED <<follows, followLog, profileUser>>
    /\ UNCHANGED <<sessionVars, search, registerVars, statusVars, reviewVars, home, followButton, profileLoad>>

\* ------------------------------------------------------------------ FollowButton
\* FollowButton.tsx lines 3-4: the component for the user `target`, its
\* `following` state starting as the isFollowing prop; bearer and seen: the
\* header of the request in flight and the `following` of the render whose
\* button was clicked; ok: whether the response's status is an OK one
MountedButton(target, isFollowing) ==
    [target |-> target, following |-> isFollowing, pc |-> "idle", kind |-> "none",
     bearer |-> NoToken, seen |-> FALSE, ok |-> FALSE]
\* no FollowButton is rendered
NoButton == MountedButton(NoUser, FALSE)

\* FollowButton.tsx lines 7-8: the endpoint of the request
FollowUrl(following) == IF following THEN "unfollow" ELSE "follow"

\* FollowButton.tsx lines 6-15: a click sends the request with the stored
\* access token
FollowButtonClick ==
    /\ followButton.target # NoUser
    /\ followButton.pc = "idle"
    /\ followButton' = [followButton EXCEPT !.pc = "sent",
                                            !.kind = FollowUrl(followButton.following),
                                            !.bearer = localStorage.access_token,
                                            !.seen = followButton.following]
    /\ UNCHANGED <<follows, followLog, profileUser, followOps>>
    /\ UNCHANGED <<sessionVars, search, registerVars, statusVars, reviewVars, home, profileLoad>>

\* (spec 4.1, 4.2) the server answers the button's request: an error status
\* for a caller that does not authenticate and for a self-follow; follow
\* creates the edge unless it exists, unfollow deletes it, and what unfollow
\* answers without an edge is not specified
FollowButtonServe ==
    /\ followButton.pc = "sent"
    /\ LET a == Caller(followButton.bearer)
           b == followButton.target
       IN IF a = NoUser \/ (followButton.kind = "follow" /\ a = b)
          THEN /\ followButton' = [followButton EXCEPT !.pc = "answered", !.ok = FALSE]
               /\ UNCHANGED follows
          ELSE IF followButton.kind = "follow"
          THEN /\ follows' = IF FollowAccepts(follows, a, b)
                             THEN [follows EXCEPT ![<<a, b>>] = @ + 1]
                             ELSE follows
               /\ followButton' = [followButton EXCEPT !.pc = "answered", !.ok = TRUE]
          ELSE IF follows[<<a, b>>] = 0
          THEN /\ \E ok \in BOOLEAN :
                    followButton' = [followButton EXCEPT !.pc = "answered", !.ok = ok]
               /\ UNCHANGED follows
          ELSE /\ follows' = [follows EXCEPT ![<<a, b>>] = 0]
               /\ followButton' = [followButton EXCEPT !.pc = "answered", !.ok = TRUE]
    /\ followLog' = [followLog EXCEPT !.srv = NoLog.srv]
    /\ UNCHANGED <<profileUser, followOps>>
    /\ UNCHANGED <<sessionVars, search, registerVars, statusVars, reviewVars, home, profileLoad>>

\* FollowButton.tsx line 10: fetch() rejects: the request or its answer is lost
FollowButtonRejected ==
    /\ followButton.pc \in {"sent", "answered"}
    /\ followButton' = [followButton EXCEPT !.pc = "rejected", !.ok = FALSE]
    /\ UNCHANGED <<follows, followLog, profileUser, followOps>>
    /\ UNCHANGED <<sessionVars, search, registerVars, statusVars, reviewVars, home, profileLoad>>

\* FollowButton.tsx lines 10-17: fetch() has resolved with a response, whose
\* status is not looked at: setFollowing(!following), with the `following`
\* of the render whose button was clicked
FollowButtonReturn ==
    /\ followButton.pc = "answered"
    /\ followButton' = MountedButton(followButton.target, ~followButton.seen)
    /\ UNCHANGED <<follows, followLog, profileUser, followOps>>
    /\ UNCHANGED <<sessionVars, search, registerVars, statusVars, reviewVars, home, profileLoad>>

\* FollowButton.tsx line 10: the rejection leaves toggleFollow before
\* setFollowing
FollowButtonThrows ==
    /\ followButton.pc = "rejected"
    /\ followButton' = MountedButton(followButton.target, followButton.following)
    /\ UNCHANGED <<follows, followLog, profileUser, followOps>>
    /\ UNCHANGED <<sessionVars, search, registerVars, statusVars, reviewVars, home, profileLoad>>

\* ------------------------------------------------------------------ reviews
\* Ratings are counted in half stars: 1 is 0.5, 2 is 1, ..., 10 is 5.
\* ReviewSelection.tsx line 90: useState<number | null>(null); 0 stands for null
NoRating == 0
\* ReviewSelection.tsx lines 154, 183, 190: the values the click areas of the
\* five stars pass to onChange: i - 0.5 and i for i = 1..5
StarValues == {2 * i - 1 : i \in 1..5} \cup {2 * i : i \in 1..5}
\* (spec 3, 4.2) rating range validation: null, or 1 to 5 in half-point steps
ValidRating(rating) == rating = NoRating \/ rating \in 2..10

Review(id, u, album, rating) ==
    [id |-> id, user |-> u, spotify_album_id |-> album, rating |-> rating]
\* req: the body of POST /reviews; found: the id of the row the server's
\* lookup found; row: the review answered
IdleSubmit == [pc |-> "idle", req |-> Review(0, NoUser, "null", NoRating), found |-> 0,
               row |-> Review(0, NoUser, "null", NoRating)]

\* ReviewSelection.tsx lines 183, 190, 204, 223: a click on a star half, or on
\* "Clear rating", which is rendered while a rating is selected
SetNewRating(val) ==
    /\ user # NoUser
    /\ val = NoRating => newRating # NoRating
    /\ newRating' = val
    /\ UNCHANGED <<srvReviews, nextReviewId, reviews, reviewOps, avgRating, avgOp>>
    /\ UNCHANGED <<sessionVars, search, registerVars, statusVars, socialVars, home, reviewLoad>>

\* ReviewSelection.tsx lines 101-121: the form is rendered for a logged-in
\* user; Submit posts the review with the rating selected
HandleSubmit(k, albumId) ==
    /\ user # NoUser
    /\ reviewOps[k].pc = "idle"
    /\ reviewOps' = [reviewOps EXCEPT ![k] =
                       [IdleSubmit EXCEPT !.pc = "sent",
                                          !.req = Review(0, user, albumId, newRating)]]
    /\ UNCHANGED <<srvReviews, nextReviewId, reviews, newRating, avgRating, avgOp>>
    /\ UNCHANGED <<sessionVars, search, registerVars, statusVars, socialVars, home, reviewLoad>>

\* (spec 3, 4.2, 5) createReview, first half of the request's transaction:
\* validate the rating, look up the review of (user, album) -- "at most one
\* review per (user, album) enforced at application layer"
ServeCreateReviewLookup(k) ==
    /\ reviewOps[k].pc = "sent"
    /\ LET req == reviewOps[k].req
           mine == {r \in srvReviews : r.user = req.user
                                       /\ r.spotify_album_id = req.spotify_album_id}
       IN reviewOps' = [reviewOps EXCEPT
               ![k].pc = IF ValidRating(req.rating) THEN "looked" ELSE "failed",
               ![k].found = IF mine = {} \/ ~ValidRating(req.rating) THEN 0
                            ELSE (CHOOSE r \in mine : TRUE).id]
    /\ UNCHANGED <<srvReviews, nextReviewId, reviews, newRating, avgRating, avgOp>>
    /\ UNCHANGED <<sessionVars, search, registerVars, statusVars, socialVars, home, reviewLoad>>

\* (spec 3, 4.2, 5) createReview, second half: replace the review found, else
\* insert a new one; the reviews table (part_000 lines 21-28, db/schema.sql
\* lines 25-30) has no unique constraint that could refuse it
ServeCreateReviewWrite(k) ==
    /\ reviewOps[k].pc = "looked"
    /\ LET op == reviewOps[k]
           old == {r \in srvReviews : r.id = op.found}
           new == [op.req EXCEPT !.id = IF op.found = 0 THEN nextReviewId + 1
                                        ELSE op.found]
       IN /\ op.found = 0 => nextReviewId < MaxRows
          /\ srvReviews' = (srvReviews \ old) \cup {new}
          /\ nextReviewId' = IF op.found = 0 THEN nextReviewId + 1 ELSE nextReviewId
          /\ reviewOps' = [reviewOps EXCEPT ![k].pc = "served", ![k].row = new]
    /\ UNCHANGED <<reviews, newRating, avgRating, avgOp>>
    /\ UNCHANGED <<sessionVars, search, registerVars, statusVars, socialVars, home, reviewLoad>>

\* ReviewSelection.tsx lines 123-129: the answered review replaces the list's
\* reviews of the same user and album, or is put in front
UpsertReview(prev, newReview) ==
    IF \E i \in 1..Len(prev) : /\ prev[i].user = newReview.user
                               /\ prev[i].spotify_album_id = newReview.spotify_album_id
    THEN [i \in 1..Len(prev) |->
            IF /\ prev[i].user = newReview.user
               /\ prev[i].spotify_album_id = newReview.spotify_album_id
            THEN newReview ELSE prev[i]]
    ELSE <<newReview>> \o prev

\* ReviewSelection.tsx lines 123-132
HandleSubmitReturn(k) ==
    /\ reviewOps[k].pc = "served"
    /\ reviews' = UpsertReview(reviews, reviewOps[k].row)
    /\ newRating' = NoRating
    /\ reviewOps' = [reviewOps EXCEPT ![k] = IdleSubmit]
    /\ UNCHANGED <<srvReviews, nextReviewId, avgRating, avgOp>>
    /\ UNCHANGED <<sessionVars, search, registerVars, statusVars, socialVars, home, reviewLoad>>

\* ReviewSelection.tsx lines 133-136: apiFetch threw; the error is alerted
HandleSubmitCatch(k) ==
    /\ reviewOps[k].pc = "failed"
    /\ reviewOps' = [reviewOps EXCEPT ![k] = IdleSubmit]
    /\ UNCHANGED <<srvReviews, nextReviewId, reviews, newRating, avgRating, avgOp>>
    /\ UNCHANGED <<sessionVars, search, registerVars, statusVars, socialVars, home, reviewLoad>>

\* (spec 4.2) listReviewsForAlbum: the album's reviews, newest first
RECURSIVE ReviewItems(_)
ReviewItems(rows) ==
    IF rows = {} THEN <<>>
    ELSE LET newest == CHOOSE r \in rows : \A q \in rows : q.id <= r.id
         IN <<newest>> \o ReviewItems(rows \ {newest})

\* album: the album asked for; items: the list answered
NoList == [pc |-> "idle", album |-> "null", items |-> <<>>]

\* ReviewSelection.tsx lines 94-96: the album page is opened: GET
\* /reviews?spotify_album_id= is sent (one fetch of the list is followed at a
\* time)
LoadReviews(albumId) ==
    /\ reviewLoad.pc = "idle"
    /\ reviewLoad' = [NoList EXCEPT !.pc = "sent", !.album = albumId]
    /\ UNCHANGED <<srvReviews, nextReviewId, reviews, newRating, reviewOps, avgRating, avgOp>>
    /\ UNCHANGED <<sessionVars, search, registerVars, statusVars, socialVars, home>>

\* (spec 4.2) listReviewsForAlbum is answered with the album's reviews as
\* they are now
ServeListReviews ==
    /\ reviewLoad.pc = "sent"
    /\ reviewLoad' = [reviewLoad EXCEPT !.pc = "served",
                         !.items = ReviewItems({r \in srvReviews :
                                                  r.spotify_album_id = reviewLoad.album})]
    /\ UNCHANGED <<srvReviews, nextReviewId, reviews, newRating, reviewOps, avgRating, avgOp>>
    /\ UNCHANGED <<sessionVars, search, registerVars, statusVars, socialVars, home>>

\* ReviewSelection.tsx line 96, api.ts lines 29-32: apiFetch throws; nothing
\* catches it and the list is left as it is
LoadReviewsThrows ==
    /\ reviewLoad.pc \in {"sent", "served"}
    /\ reviewLoad' = NoList
    /\ UNCHANGED <<srvReviews, nextReviewId, reviews, newRating, reviewOps, avgRating, avgOp>>
    /\ UNCHANGED <<sessionVars, search, registerVars, statusVars, socialVars, home>>

\* ReviewSelection.tsx line 97: setReviews(data.items) replaces the list
LoadReviewsReturn ==
    /\ reviewLoad.pc = "served"
    /\ reviews' = reviewLoad.items
    /\ reviewLoad' = NoList
    /\ UNCHANGED <<srvReviews, nextReviewId, newRating, reviewOps, avgRating, avgOp>>
    /\ UNCHANGED <<sessionVars, search, registerVars, statusVars, socialVars, home>>

\* ------------------------------------------------------------------ average rating
\* AlbumCard.tsx line 16: useState<number | null>(null).  An average is kept
\* as the exact fraction sum / n of half stars; n = 0 stands for null
NoAverage == [sum |-> 0, n |-> 0]

RECURSIVE SumRatings(_)
SumRatings(rows) ==
    IF rows = {} THEN 0
    ELSE LET r == CHOOSE q \in rows : TRUE
         IN r.rating + SumRatings(rows \ {r})
\* (spec 4.2) averageRating(albumId): the mean over the album's reviews that
\* have a rating, null if there is none
AverageRating(rows, albumId) ==
    LET rated == {r \in rows : r.spotify_album_id = albumId /\ r.rating # NoRating}
    IN IF rated = {} THEN NoAverage
       ELSE [sum |-> SumRatings(rated), n |-> Cardinality(rated)]

\* AlbumCard.tsx lines 18-21 (part_005 line 85): the card asks for the average
FetchAverage ==
    /\ avgOp.pc = "idle"
    /\ avgOp' = [avgOp EXCEPT !.pc = "sent"]
    /\ UNCHANGED <<srvReviews, nextReviewId, reviews, newRating, reviewOps, avgRating>>
    /\ UNCHANGED <<sessionVars, search, registerVars, statusVars, socialVars, home, reviewLoad>>

\* (spec 4.2) GET /albums/{id}/average-rating is served, or the request fails
ServeAverage(albumId) ==
    /\ avgOp.pc = "sent"
    /\ \/ avgOp' = [pc |-> "served", average |-> AverageRating(srvReviews, albumId)]
       \/ avgOp' = [pc |-> "failed", average |-> NoAverage]
    /\ UNCHANGED <<srvReviews, nextReviewId, reviews, newRating, reviewOps, avgRating>>
    /\ UNCHANGED <<sessionVars, search, registerVars, statusVars, socialVars, home, reviewLoad>>

\* AlbumCard.tsx line 22 (part_005 line 86): setAvgRating(data.average)
ShownAverage_zero(data) == IF data.average = NoAverage THEN [sum |-> 0, n |-> 1]
                           ELSE data.average
ShownAverage(data) == data.average

\* AlbumCard.tsx lines 22-25: the answer is shown; an error is logged and
\* leaves the card as it is
AverageResponse ==
    /\ avgOp.pc \in {"served", "failed"}
    /\ avgRating' = IF avgOp.pc = "served" THEN ShownAverage(avgOp) ELSE avgRating
    /\ avgOp' = [pc |-> "idle", average |-> NoAverage]
    /\ UNCHANGED <<srvReviews, nextReviewId, reviews, newRating, reviewOps>>
    /\ UNCHANGED <<sessionVars, search, registerVars, statusVars, socialVars, home, reviewLoad>>

\* ------------------------------------------------------------------ the session
\* no review written, nothing asked
InitReview ==
    /\ srvReviews = {}
    /\ nextReviewId = 0
    /\ reviews = <<>>
    /\ newRating = NoRating
    /\ reviewOps = [k \in Slots |-> IdleSubmit]
    /\ avgRating = NoAverage
    /\ avgOp = [pc |-> "idle", average |-> NoAverage]
    /\ reviewLoad = NoList

\* no profile opened, no review written, no page requested
InitPages ==
    /\ follows = [p \in Pairs |-> 0]
    /\ followLog = NoLog
    /\ profileUser = NoProfile
    /\ profileLoad = NoFetch
    /\ followOps = [k \in Slots |-> IdleFollow]
    /\ followButton = NoButton
    /\ InitReview
    /\ home = InitHome

\* ------------------------------------------------------------------ start.sh
\* start.sh line 10
max_attempts == 5
\* the exit statuses tried for a command that fails
FailureCodes == {1, 2, 255}

\* the script before its first command; attempt: line 9; ran: the commands
\* run so far with their exit statuses; status: the exit status of the
\* script once it has exited
NotStarted == [pc |-> "start", attempt |-> 0, ran |-> <<>>, status |-> 0]

Ran(cmd, code) == [cmd |-> cmd, code |-> code]

\* start.sh line 2: set -e: a failing command that is not the condition of
\* the loop ends the script with the command's status
ExitOnError(b, cmd, code) ==
    [b EXCEPT !.pc = "exited", !.status = code, !.ran = Append(@, Ran(cmd, code))]

\* start.sh line 14: [ "$attempt" -ge "$max_attempts" ]
GiveUp_late(attempt) == attempt > max_attempts
GiveUp(attempt) == attempt >= max_attempts

\* start.sh lines 2-10: cd /app, then the counters are set
StartScript ==
    /\ boot.pc = "start"
    /\ \E code \in FailureCodes \cup {0} :
          boot' = IF code = 0
                  THEN [boot EXCEPT !.pc = "migrate", !.attempt = 0,
                                    !.ran = Append(@, Ran("cd", 0))]
                  ELSE ExitOnError(boot, "cd", code)
    /\ UNCHANGED <<accounts, regForm, verifyPage, lastVerify>>
    /\ UNCHANGED <<sessionVars, search, statusVars, pageVars>>

\* start.sh lines 12-22: one round of the until loop: alembic upgrade head
\* runs; if it fails the attempt is counted and the script exits with 1 at
\* max_attempts, else sleeps and tries again
Migrate ==
    /\ boot.pc = "migrate"
    /\ \E code \in FailureCodes \cup {0} :
          boot' = IF code = 0
                  THEN [boot EXCEPT !.pc = "seed", !.ran = Append(@, Ran("alembic", 0))]
                  ELSE IF GiveUp(boot.attempt + 1)
                  THEN [boot EXCEPT !.pc = "exited", !.status = 1,
                                    !.attempt = @ + 1,
                                    !.ran = Append(@, Ran("alembic", code))]
                  ELSE [boot EXCEPT !.attempt = @ + 1,
                                    !.ran = Append(@, Ran("alembic", code))]
    /\ UNCHANGED <<accounts, regForm, verifyPage, lastVerify>>
    /\ UNCHANGED <<sessionVars, search, statusVars, pageVars>>

\* start.sh lines 24-30: python -m seed runs; when it has succeeded the
\* script execs uvicorn
Seed ==
    /\ boot.pc = "seed"
    /\ \E code \in FailureCodes \cup {0} :
          boot' = IF code = 0
                  THEN [boot EXCEPT !.pc = "serving",
                                    !.ran = @ \o <<Ran("seed", 0), Ran("uvicorn", 0)>>]
                  ELSE ExitOnError(boot, "seed", code)
    /\ UNCHANGED <<accounts, regForm, verifyPage, lastVerify>>
    /\ UNCHANGED <<sessionVars, search, statusVars, pageVars>>

\* ------------------------------------------------------------------ AuthProvider: startup
\* part_002 lines 76-77 and 61-65: the catch of init calls logout, which
\* removes both tokens
InitFailed_keep(ls) == ls
InitFailed(ls) == [access_token |-> NoToken, refresh_token |-> NoToken]

\* part_002 lines 69-71: init returns at once without a stored access token
InitCall_always(ls) == FirstAttempt(ls)
InitCall(ls) == IF ls.access_token = NoToken THEN IdleCall ELSE FirstAttempt(ls)

\* part_002 lines 67-74 and 81: a page load.  localStorage persists; every
\* component starts from its initial state, the user being null (line 22);
\* the requests of the page left are abandoned; AuthProvider's mount effect
\* runs init, which reads the stored access token and, if there is one,
\* sends the first attempt of apiFetch("/me")
Startup ==
    /\ user' = NoUser
    /\ login' = IdleLogin
    /\ loginError' = NoMsg
    /\ calls' = [c \in Callers |-> IF c = "init" THEN InitCall(localStorage) ELSE IdleCall]
    /\ search' = InitSearch
    /\ regForm' = IdleForm
    /\ verifyPage' = IdleVerify
    /\ statuses' = <<>>
    /\ statusOps' = [k \in Slots |-> IdleOp]
    /\ statusLoads' = NoLoads
    /\ profileUser' = NoProfile
    /\ profileLoad' = NoFetch
    /\ followOps' = [k \in Slots |-> IdleFollow]
    /\ followButton' = NoButton
    /\ reviews' = <<>>
    /\ newRating' = NoRating
    /\ reviewOps' = [k \in Slots |-> IdleSubmit]
    /\ avgRating' = NoAverage
    /\ avgOp' = [pc |-> "idle", average |-> NoAverage]
    /\ reviewLoad' = NoList
    /\ home' = InitHome
    /\ UNCHANGED <<localStorage, tokenVars, accounts, lastVerify, boot>>
    /\ UNCHANGED <<srvStatuses, nextRowId, schema, lastPress, follows, followLog>>
    /\ UNCHANGED <<srvReviews, nextReviewId>>

\* part_002 lines 73-78: /me has answered: the user is the one the server
\* resolved the request's bearer to; if apiFetch threw, logout runs
InitReturn ==
    /\ calls["init"].pc = "done"
    /\ IF calls["init"].result = "ok"
       THEN /\ user' = calls["init"].token.owner
            /\ statusLoads' = LoadStatuses(user', statusLoads)
            /\ UNCHANGED localStorage
       ELSE /\ user' = NoUser
            /\ localStorage' = InitFailed(localStorage)
            /\ UNCHANGED statusLoads
    /\ calls' = [calls EXCEPT !["init"] = IdleCall]
    /\ UNCHANGED <<login, loginError, tokenVars>>
    /\ UNCHANGED <<search, registerVars, shelfVars, pageVars>>

\* a fresh browser
InitSession ==
    /\ localStorage = [access_token |-> NoToken, refresh_token |-> NoToken]
    /\ user = NoUser
    /\ calls = [c \in Callers |-> IdleCall]
    /\ login = IdleLogin
    /\ loginError = NoMsg
    /\ search = InitSearch
    /\ accessExpired = 0
    /\ refreshExpired = 0
    /\ nextTok = 0
    /\ nextRef = 0

InitRegister ==
    /\ regForm = IdleForm
    /\ verifyPage = IdleVerify
    /\ lastVerify = "null"
    /\ boot = NotStarted

InitStatus ==
    /\ srvStatuses = {}
    /\ nextRowId = 0
    /\ schema = "part_000"
    /\ statuses = <<>>
    /\ statusOps = [k \in Slots |-> IdleOp]
    /\ lastPress = "none"
    /\ statusLoads = NoLoads

\* the users table holds a verified account (alice) and an unverified one
\* (bob); alice has listened to an album
Init ==
    /\ InitSession
    /\ accounts = [u \in Users |->
                     IF u = "alice"
                     THEN [email |-> "a@x.com", password |-> "p1", verified |-> TRUE,
                           linkExpired |-> FALSE]
                     ELSE [email |-> "b@x.com", password |-> "p2", verified |-> FALSE,
                           linkExpired |-> FALSE]]
    /\ InitRegister
    /\ InitPages
    /\ srvStatuses = {Row(1, "alice", "blonde", "listened", FALSE)}
    /\ nextRowId = 1
    /\ schema = "part_000"
    /\ statuses = <<>>
    /\ statusOps = [k \in Slots |-> IdleOp]
    /\ lastPress = "none"
    /\ statusLoads = NoLoads

\* the session's operations; the effect that loads the status list after a
\* login runs in NextHydrate (with apiFetch's refresh and retry), NextToggle
\* and NextPress (where no token expires)
Next ==
    \/ \E c \in Callers : ApiFetchStart(c)
    \/ \E c \in Callers : ApiFetchFirstResponse(c)
    \/ \E c \in Callers : ApiFetchRefreshResponse(c)
    \/ \E c \in Callers : ApiFetchRetryResponse(c)
    \/ \E c \in Callers : ApiFetchReturn(c)
    \/ \E u \in Users, p \in Passwords : LoginSubmit(u, p)
    \/ LoginResponse
    \/ LoginMe
    \/ ClearLoginError
    \/ Logout
    \/ ExpireAccess
    \/ ExpireRefresh

Spec == Init /\ [][Next]_vars

\* ------------------------------------------------------------------ accounts
\* a fresh browser and an empty users table
InitRegistration ==
    /\ InitSession
    /\ accounts = [u \in Users |-> NoAccount]
    /\ InitRegister
    /\ InitPages
    /\ InitStatus

\* the form is submitted with the password p1 typed and any confirmation;
\* register is also called as its signature asks, which no call site does
NextRegistration ==
    \/ \E u \in RegUsernames, cp \in Passwords : RegisterSubmit(u, "p1", cp)
    \/ \E u \in RegUsernames, e \in Emails, p \in RegPasswords \ {"p2"}, cp \in Passwords :
          Register(u, e, p, cp)
    \/ RegisterResponse
    \/ \E t \in VerifyTokens : VerifyOpen(t)
    \/ VerifyResponse
    \/ \E u \in Users : ExpireLink(u)

SpecRegistration == InitRegistration /\ [][NextRegistration]_vars

\* ------------------------------------------------------------------ statuses
\* a logged-in user with an empty shelf; the other user has a status row for
\* an album
InitLogged ==
    /\ user = "alice"
    /\ localStorage = [access_token |-> AccessToken("alice", 1),
                       refresh_token |-> RefreshTokenOf("alice", 1)]
    /\ srvStatuses = {Row(1, "bob", "blonde", "listened", FALSE)}
    /\ nextRowId = 1
    /\ schema \in Schemas
    /\ calls = [c \in Callers |-> IdleCall]
    /\ login = IdleLogin
    /\ loginError = NoMsg
    /\ search = InitSearch
    /\ accessExpired = 0
    /\ refreshExpired = 0
    /\ nextTok = 1
    /\ nextRef = 1
    /\ accounts = [u \in Users |->
                     [email |-> IF u = "alice" THEN "a@x.com" ELSE "b@x.com",
                      password |-> "p1", verified |-> TRUE, linkExpired |-> FALSE]]
    /\ InitRegister
    /\ InitPages
    /\ statuses = <<>>
    /\ statusOps = [k \in Slots |-> IdleOp]
    /\ lastPress = "none"

\* the load of the list has been answered
InitStatuses ==
    /\ InitLogged
    /\ statusLoads = NoLoads

\* MusicProvider has just been given the user: the load of the list is in
\* flight
InitShelf ==
    /\ InitLogged
    /\ statusLoads = LoadStatuses(user, NoLoads)

NextStatuses ==
    \/ \E k \in Slots, a \in Albums, status \in {"want-to-listen", "listened"} :
          AddStatus(k, a, status, FALSE)
    \/ \E k \in Slots : ServeSetStatusLookup(k)
    \/ \E k \in Slots : ServeSetStatusWrite(k)
    \/ \E k \in Slots : StatusRequestFails(k)
    \/ \E k \in Slots : AddStatusReturn(k)
    \/ \E k \in Slots : StatusThrows(k)
    \/ \E k \in Slots, id \in 1..MaxRows : RemoveStatus(k, id)
    \/ \E k \in Slots : ServeRemoveStatus(k)
    \/ \E k \in Slots : RemoveStatusReturn(k)
    \/ \E k \in Slots, id \in 1..MaxRows :
          UpdateStatus(k, id, "want-to-listen", TRUE)
    \/ \E k \in Slots : ServeUpdateStatus(k)
    \/ \E k \in Slots : UpdateStatusReturn(k)

SpecStatuses == InitStatuses /\ [][NextStatuses]_vars

\* ------------------------------------------------------------------ the search page in a session
\* the search page used by a logged-in user next to the application's
\* apiFetch calls
NextSearch ==
    \/ \E c \in Callers : ApiFetchStart(c)
    \/ \E c \in Callers : ApiFetchFirstResponse(c)
    \/ \E c \in Callers : ApiFetchRefreshResponse(c)
    \/ \E c \in Callers : ApiFetchRetryResponse(c)
    \/ \E c \in Callers : ApiFetchReturn(c)
    \/ Logout
    \/ ExpireAccess
    \/ ExpireRefresh
    \/ HandleSearch
    \/ HandleSearchResponse

SpecSearch == InitStatuses /\ [][NextSearch]_vars

\* ------------------------------------------------------------------ the catalog pages
NextCatalog ==
    \/ HandleSearch
    \/ HandleSearchResponse
    \/ GetAlbums
    \/ GetAlbumsResponse

SpecCatalog == Init /\ [][NextCatalog]_vars

\* ------------------------------------------------------------------ the shelf
\* the album page's three buttons, pressed by the logged-in user at any time,
\* until the user logs out
NextShelf ==
    \/ \E k \in Slots, a \in Albums : ToggleWantToListen(k, a)
    \/ \E k \in Slots, a \in Albums : ToggleListened(k, a)
    \/ \E k \in Slots, a \in Albums : ToggleFavorite(k, a)
    \/ \E k \in Slots : ServeSetStatusLookup(k)
    \/ \E k \in Slots : ServeSetStatusWrite(k)
    \/ \E k \in Slots : ServeUpdateStatus(k)
    \/ \E k \in Slots : ServeRemoveStatus(k)
    \/ \E k \in Slots : StatusRequestFails(k)
    \/ \E k \in Slots : AddStatusReturn(k)
    \/ \E k \in Slots : UpdateStatusReturn(k)
    \/ \E k \in Slots : RemoveStatusReturn(k)
    \/ \E k \in Slots : StatusThrows(k)
    \/ Logout

SpecShelf == InitStatuses /\ [][NextShelf]_vars

\* ------------------------------------------------------------------ the profile page
\* alice's browser holds her tokens; AuthProvider knows her, or has been
\* reloaded and holds null (AuthContext.tsx line 21); she may already follow
\* bob, and bob may follow her
InitSocial ==
    /\ user \in {"alice", NoUser}
    /\ localStorage = [access_token |-> AccessToken("alice", 1),
                       refresh_token |-> RefreshTokenOf("alice", 1)]
    /\ calls = [c \in Callers |-> IdleCall]
    /\ login = IdleLogin
    /\ loginError = NoMsg
    /\ search = InitSearch
    /\ accessExpired = 0
    /\ refreshExpired = 0
    /\ nextTok = 1
    /\ nextRef = 1
    /\ accounts = [u \in Users |->
                     [email |-> IF u = "alice" THEN "a@x.com" ELSE "b@x.com",
                      password |-> "p1", verified |-> TRUE, linkExpired |-> FALSE]]
    /\ InitRegister
    /\ InitStatus
    /\ InitReview
    /\ home = InitHome
    /\ follows \in {f \in [Pairs -> {0, 1}] : \A u \in Users : f[<<u, u>>] = 0}
    /\ followLog = NoLog
    /\ profileUser = NoProfile
    /\ profileLoad = NoFetch
    /\ followOps = [k \in Slots |-> IdleFollow]

\* no FollowButton is rendered on the profile page
InitFollow ==
    /\ InitSocial
    /\ followButton = NoButton

NextFollow ==
    \/ \E u \in Users : LoadProfile(u)
    \/ HandleFileChange
    \/ UploadAnswered
    \/ ServeProfile
    \/ ProfileRequestFails
    \/ LoadProfileReturn
    \/ LoadProfileThrows
    \/ \E k \in Slots : ToggleFollow(k)
    \/ \E k \in Slots : ServeFollow(k)
    \/ \E k \in Slots : ServeUnfollow(k)
    \/ \E k \in Slots : FollowRequestFails(k)
    \/ \E k \in Slots : ToggleFollowReturn(k)
    \/ \E k \in Slots : ToggleFollowThrows(k)

SpecFollow == InitFollow /\ [][NextFollow]_vars

\* ------------------------------------------------------------------ the album page's reviews
\* alice is logged in and bob may have reviewed the album
InitReviews ==
    /\ user = "alice"
    /\ localStorage = [access_token |-> AccessToken("alice", 1),
                       refresh_token |-> RefreshTokenOf("alice", 1)]
    /\ calls = [c \in Callers |-> IdleCall]
    /\ login = IdleLogin
    /\ loginError = NoMsg
    /\ search = InitSearch
    /\ accessExpired = 0
    /\ refreshExpired = 0
    /\ nextTok = 1
    /\ nextRef = 1
    /\ accounts = [u \in Users |->
                     [email |-> IF u = "alice" THEN "a@x.com" ELSE "b@x.com",
                      password |-> "p1", verified |-> TRUE, linkExpired |-> FALSE]]
    /\ InitRegister
    /\ InitStatus
    /\ follows = [p \in Pairs |-> 0]
    /\ followLog = NoLog
    /\ profileUser = NoProfile
    /\ profileLoad = NoFetch
    /\ followOps = [k \in Slots |-> IdleFollow]
    /\ followButton = NoButton
    /\ home = InitHome
    /\ srvReviews \in {{}, {Review(1, "bob", "blonde", 8)}}
    /\ nextReviewId = 1
    /\ reviews = <<>>
    /\ newRating = NoRating
    /\ reviewOps = [k \in Slots |-> IdleSubmit]
    /\ avgRating = NoAverage
    /\ avgOp = [pc |-> "idle", average |-> NoAverage]
    /\ reviewLoad = NoList

\* the clicks tried: the left half of the first star, the right half of the
\* last one, and Clear
NextReviews ==
    \/ \E val \in (StarValues \cap {1, 10}) \cup {NoRating} : SetNewRating(val)
    \/ \E k \in Slots, a \in Albums : HandleSubmit(k, a)
    \/ \E k \in Slots : ServeCreateReviewLookup(k)
    \/ \E k \in Slots : ServeCreateReviewWrite(k)
    \/ \E k \in Slots : HandleSubmitReturn(k)
    \/ \E k \in Slots : HandleSubmitCatch(k)
    \/ \E a \in Albums : LoadReviews(a)
    \/ ServeListReviews
    \/ LoadReviewsThrows
    \/ LoadReviewsReturn

SpecReviews == InitReviews /\ [][NextReviews]_vars

\* ------------------------------------------------------------------ the album card's average
\* the album has up to MaxRatings reviews, each with any rating the range
\* validation accepts, and the card asks for their average
RatedReviews ==
    UNION {{ {Review(i, <<"alice", "bob", "carol", "dave">>[i], "blonde", f[i]) : i \in 1..n}
             : f \in [1..n -> {NoRating} \cup (2..10)]} : n \in 0..MaxRatings}

InitAverage ==
    /\ InitSession
    /\ accounts = [u \in Users |-> NoAccount]
    /\ InitRegister
    /\ InitStatus
    /\ follows = [p \in Pairs |-> 0]
    /\ followLog = NoLog
    /\ profileUser = NoProfile
    /\ profileLoad = NoFetch
    /\ followOps = [k \in Slots |-> IdleFollow]
    /\ followButton = NoButton
    /\ home = InitHome
    /\ srvReviews \in RatedReviews
    /\ nextReviewId = Cardinality(srvReviews)
    /\ reviews = <<>>
    /\ newRating = NoRating
    /\ reviewOps = [k \in Slots |-> IdleSubmit]
    /\ avgRating = NoAverage
    /\ avgOp = [pc |-> "idle", average |-> NoAverage]
    /\ reviewLoad = NoList

NextAverage ==
    \/ FetchAverage
    \/ \E a \in Albums : ServeAverage(a)
    \/ AverageResponse

SpecAverage == InitAverage /\ [][NextAverage]_vars

\* ------------------------------------------------------------------ the status buttons
\* the Want to Listen and Listened buttons pressed at any time; every request
\* reaches the server and is answered
NextToggle ==
    \/ \E k \in Slots, a \in Albums : ToggleWantToListen(k, a)
    \/ \E k \in Slots, a \in Albums : ToggleListened(k, a)
    \/ \E k \in Slots : ServeSetStatusLookup(k)
    \/ \E k \in Slots : ServeSetStatusWrite(k)
    \/ \E k \in Slots : ServeRemoveStatus(k)
    \/ \E k \in Slots : AddStatusReturn(k)
    \/ \E k \in Slots : RemoveStatusReturn(k)
    \/ \E k \in Slots : StatusThrows(k)
    \/ \E l \in BagToSet(statusLoads) : LoadStatusesFetch(l)
    \/ \E l \in BagToSet(statusLoads) : ServeLoadStatuses(l)
    \/ \E l \in BagToSet(statusLoads) : LoadStatusesThrows(l)
    \/ \E l \in BagToSet(statusLoads) : LoadStatusesReturn(l)

SpecToggle == InitShelf /\ [][NextToggle]_vars

\* ------------------------------------------------------------------ one press at a time
\* a status button is pressed only when the load of the list has ended and
\* no request of an earlier press is pending; requests and answers may be
\* lost
NoPending ==
    /\ statusLoads = NoLoads
    /\ \A k \in Slots : statusOps[k].pc = "idle"

NextPress ==
    \/ \E k \in Slots, a \in Albums : NoPending /\ ToggleWantToListen(k, a)
    \/ \E k \in Slots, a \in Albums : NoPending /\ ToggleListened(k, a)
    \/ \E k \in Slots : ServeSetStatusLookup(k)
    \/ \E k \in Slots : ServeSetStatusWrite(k)
    \/ \E k \in Slots : ServeRemoveStatus(k)
    \/ \E k \in Slots : StatusRequestFails(k)
    \/ \E k \in Slots : AddStatusReturn(k)
    \/ \E k \in Slots : RemoveStatusReturn(k)
    \/ \E k \in Slots : StatusThrows(k)
    \/ \E l \in BagToSet(statusLoads) : LoadStatusesFetch(l)
    \/ \E l \in BagToSet(statusLoads) : ServeLoadStatuses(l)
    \/ \E l \in BagToSet(statusLoads) : LoadStatusesThrows(l)
    \/ \E l \in BagToSet(statusLoads) : LoadStatusesReturn(l)

SpecPress == InitShelf /\ [][NextPress]_vars

\* ------------------------------------------------------------------ page loads
\* logins of the verified user and page loads in one browser, with tokens
\* that expire; the apiFetch calls are the /me requests of login and of init
\* and the loads of the status list that each setUser starts
NextHydrate ==
    \/ Startup
    \/ InitReturn
    \/ \E c \in Callers : ApiFetchFirstResponse(c)
    \/ \E c \in Callers : ApiFetchRefreshResponse(c)
    \/ \E c \in Callers : ApiFetchRetryResponse(c)
    \/ LoginSubmit("alice", "p1")
    \/ LoginResponse
    \/ LoginMe
    \/ ExpireAccess
    \/ ExpireRefresh
    \/ \E l \in BagToSet(statusLoads) : LoadStatusesFetch(l)
    \/ \E l \in BagToSet(statusLoads) : ServeLoadStatuses(l)
    \/ \E l \in BagToSet(statusLoads) : LoadStatusesUnauthorized(l)
    \/ \E l \in BagToSet(statusLoads) : LoadStatusesRefreshResponse(l)
    \/ \E l \in BagToSet(statusLoads) : LoadStatusesThrows(l)
    \/ \E l \in BagToSet(statusLoads) : LoadStatusesReturn(l)

SpecHydrate == Init /\ [][NextHydrate]_vars

\* ------------------------------------------------------------------ a FollowButton
\* alice's browser shows a FollowButton for a user, its isFollowing prop
\* being what the server holds; she may log out, and her token may expire
InitButton ==
    /\ InitSocial
    /\ user = "alice"
    /\ \E t \in Users :
          followButton = MountedButton(t, follows[<<"alice", t>>] > 0)

NextButton ==
    \/ FollowButtonClick
    \/ FollowButtonServe
    \/ FollowButtonRejected
    \/ FollowButtonReturn
    \/ FollowButtonThrows
    \/ Logout
    \/ ExpireAccess

SpecButton == InitButton /\ [][NextButton]_vars

\* ------------------------------------------------------------------ the API container
NextStart ==
    \/ StartScript
    \/ Migrate
    \/ Seed

SpecStart == Init /\ [][NextStart]_vars

\* ================================================================== claims
VerifyEmailBanner == "Please verify your email before logging in."
MismatchMsg == <<"Passwords", "do", "not", "match">>
VerifyResults == {"success", "already_verified", "expired", "invalid"}

\* ------------------------------------------------------------------ C1
\* C1: whatever the server answers, one apiFetch call issues at most one POST
\* /refresh and sends its request at most twice (initial attempt and one
\* retry, the retry only after a refresh); a non-OK final response is thrown,
\* and the response to the retry ends the call.
C1_Bounded ==
    \A c \in Callers :
        /\ calls[c].refreshes <= 1
        /\ calls[c].sends <= 1 + calls[c].refreshes
        /\ (calls[c].pc = "done" /\ calls[c].status # "200") => calls[c].result = "throw"
C1_RetryIsFinal ==
    \A c \in Callers :
        (calls[c].pc = "await2" /\ calls'[c] # calls[c])
            => /\ calls'[c].pc = "done"
               /\ calls'[c].sends = 2
               /\ calls'[c].refreshes = 1
C1_AtMostOneRefreshAndRetry == []C1_Bounded /\ [][C1_RetryIsFinal]_vars

\* the retried request was answered 401 again and the call threw
C1_Witness ==
    \E c \in Callers :
        /\ calls[c].pc = "done"
        /\ calls[c].sends = 2
        /\ calls[c].refreshes = 1
        /\ calls[c].status = "401"
        /\ calls[c].result = "throw"

\* ------------------------------------------------------------------ C2
\* C2: when the first request returned 401 and /refresh succeeds with a new
\* access token, that is the call's only /refresh, the retried request carries
\* exactly the new token, the new token is now the stored access token, and a
\* 200 answer to the retry makes the call succeed.
C2_RefreshStep ==
    \A c \in Callers :
        (calls[c].pc = "refreshing" /\ calls'[c].pc = "await2")
            => /\ calls[c].status = "401"
               /\ calls'[c].refreshes = 1
               /\ nextTok' = nextTok + 1
               /\ calls'[c].token = AccessToken(calls[c].rtok.owner, nextTok')
               /\ calls'[c].token # calls[c].token
               /\ localStorage'.access_token = calls'[c].token
C2_RetryAccepted ==
    \A c \in Callers :
        (calls[c].pc = "await2" /\ calls'[c].pc = "done" /\ calls'[c].status = "200")
            => calls'[c].result = "ok"
C2_RefreshThenRetryWithNewToken == [][C2_RefreshStep /\ C2_RetryAccepted]_vars

\* a call that got 401, refreshed once, retried with the minted token, succeeded
C2_Witness ==
    \E c \in Callers :
        /\ calls[c].pc = "done"
        /\ calls[c].sends = 2
        /\ calls[c].refreshes = 1
        /\ calls[c].result = "ok"
        /\ calls[c].token = localStorage.access_token
        /\ calls[c].token.n > 1

\* ------------------------------------------------------------------ C3
\* a request of apiFetch leaves the client in this step
ApiSends(c) == calls'[c].sends > calls[c].sends
\* the request of handleSearch leaves the client in this step
SearchSends == search.pc = "idle" /\ search'.pc = "await"

\* C3: every request sent while an access token is stored carries that token
\* as its bearer, at every call site: the requests of apiFetch and the search
\* request of handleSearch.
C3_Original ==
    [][/\ \A c \in Callers :
            (ApiSends(c) /\ localStorage'.access_token # NoToken)
                => calls'[c].token = localStorage'.access_token
       /\ (SearchSends /\ localStorage'.access_token # NoToken)
                => search'.req.bearer = localStorage'.access_token]_vars

\* ------------------------------------------------------------------ C4
\* C4: when the first response of an apiFetch call is a failure other than
\* 401, the call ends there: no /refresh, no second attempt, the error thrown.
C4_Step ==
    \A c \in Callers :
        (calls[c].pc = "await1" /\ calls'[c] # calls[c] /\ calls'[c].status \notin {"401", "200"})
            => /\ calls'[c].pc = "done"
               /\ calls'[c].result = "throw"
               /\ calls'[c].refreshes = 0
               /\ calls'[c].sends = 1
C4_Terminal ==
    \A c \in Callers :
        (calls[c].pc = "done" /\ calls'[c] # calls[c]) => calls'[c] = IdleCall
C4_OtherFailuresAreTerminal == [][C4_Step /\ C4_Terminal]_vars

\* a call that failed with 500 while a refresh token was stored
C4_Witness ==
    \E c \in Callers :
        /\ calls[c].pc = "done"
        /\ calls[c].status = "500"
        /\ calls[c].result = "throw"
        /\ calls[c].refreshes = 0
        /\ calls[c].sends = 1
        /\ localStorage.refresh_token # NoToken

\* ------------------------------------------------------------------ C5
\* C5: a refresh never changes the refresh token: the stored refresh token is
\* always the one the last login stored (or none after logout), the answer to
\* /refresh neither changes the stored refresh token nor ends its validity on
\* the server, so one refresh token mints access tokens again and again.
C5_StoredIsLoginIssued ==
    \/ localStorage.refresh_token = NoToken
    \/ /\ localStorage.refresh_token.kind = "refresh"
       /\ localStorage.refresh_token.n = nextRef
C5_RefreshStep ==
    \A c \in Callers :
        (calls[c].pc = "refreshing" /\ calls'[c] # calls[c])
            => /\ localStorage'.refresh_token = localStorage.refresh_token
               /\ refreshExpired' = refreshExpired
               /\ nextRef' = nextRef
C5_RefreshTokenNotRotated == []C5_StoredIsLoginIssued /\ [][C5_RefreshStep]_vars

\* one login, then two access tokens minted by its refresh token, which is
\* still the stored one and still valid
C5_Witness ==
    /\ nextRef = 1
    /\ nextTok = 3
    /\ localStorage.refresh_token = RefreshTokenOf("alice", 1)
    /\ localStorage.refresh_token \in ValidRefresh
    /\ localStorage.access_token = AccessToken("alice", 3)

\* ------------------------------------------------------------------ C6
\* the register page handles an answer in this step
RegisterAnswered == regForm.pc = "await" /\ regForm'.pc = "idle"
\* fetch() rejected: the page's fallback message
RegisterFailedText == <<"Registration", "failed">>

\* C6: a registration attempt with password != confirm_password fails and
\* creates no account; when the server answered, the mismatch message is shown
\* on the confirm-password field and on neither the username nor the password
\* field.
C6_Step ==
    (RegisterAnswered /\ regForm.req.password # regForm.req.confirm_password)
        => /\ accounts' = accounts
           /\ ~regForm'.pushed
           /\ \/ regForm'.errors = [NoErrors EXCEPT !.username = RegisterFailedText]
              \/ /\ regForm'.errors.confirm_password = MismatchMsg
                 /\ regForm'.errors.username # MismatchMsg
                 /\ regForm'.errors.password # MismatchMsg
C6_MismatchScopedToConfirm == [][C6_Step]_vars

\* the form after a register whose confirmation differed from its password
\* and whose username broke the field constraint
C6_Witness ==
    /\ regForm.pc = "idle"
    /\ regForm.req.confirm_password \in Passwords
    /\ regForm.req.password \in Passwords
    /\ regForm.errors.confirm_password = MismatchMsg
    /\ regForm.errors.password = NoText
    /\ regForm.errors.username = <<"String", "too", "short">>
    /\ \A u \in Users : accounts[u] = NoAccount

\* ------------------------------------------------------------------ C7
\* C7: a register with valid fields, password == confirm_password and unused
\* username and email creates an account that is not verified; register
\* stores no token, sets no user and starts no login.
C7_Step ==
    RegisterAnswered
        => /\ localStorage' = localStorage
           /\ user' = user
           /\ login' = login
           /\ (/\ RegisterIssues(regForm.req) = <<>>
               /\ accounts[regForm.req.username] = NoAccount
               /\ \A u \in Users : accounts[u].email # regForm.req.email)
                  => \/ regForm'.errors = [NoErrors EXCEPT !.username = RegisterFailedText]
                     \/ /\ regForm'.pushed
                        /\ accounts'[regForm.req.username] # NoAccount
                        /\ ~accounts'[regForm.req.username].verified
                        /\ accounts'[regForm.req.username].email = regForm.req.email
C7_RegisterCreatesUnverifiedNoLogin == [][C7_Step]_vars

\* after a successful register: the account exists unverified, nothing stored
C7_Witness ==
    /\ regForm.pc = "idle"
    /\ regForm.pushed
    /\ accounts["alice"] # NoAccount
    /\ ~accounts["alice"].verified
    /\ localStorage = [access_token |-> NoToken, refresh_token |-> NoToken]
    /\ user = NoUser

\* ------------------------------------------------------------------ C8
\* C8: the answer to a login on an unverified account, with the right or a
\* wrong password, makes the login page show the verify-your-email message
\* (unless fetch() itself rejected), stores no token and leaves the user as
\* it was (null stays null).
C8_Step ==
    (/\ login.pc = "await"
     /\ login' # login
     /\ accounts[login.username] # NoAccount
     /\ ~accounts[login.username].verified)
        => /\ LoginAnswer(login.username, login.password) = "Email not verified"
           /\ loginError' \in {VerifyEmailBanner, BannerFor("network")}
           /\ login' = IdleLogin
           /\ localStorage' = localStorage
           /\ user' = user
           /\ calls' = calls
C8_UnverifiedLoginRejected == [][C8_Step]_vars

\* the banner after a login on the unverified account, nobody logged in
C8_Witness ==
    /\ loginError = VerifyEmailBanner
    /\ login = IdleLogin
    /\ user = NoUser
    /\ localStorage = [access_token |-> NoToken, refresh_token |-> NoToken]

\* ------------------------------------------------------------------ C9
\* C9: verify returns one of success, already_verified, expired, invalid; for
\* a verified account it returns already_verified (which is what the page
\* shows) and changes nothing; no account goes from verified to unverified.
C9_OneOfFour == lastVerify \in VerifyResults \cup {"null"}
C9_Step ==
    /\ \A u \in Users : accounts[u].verified => accounts'[u].verified
    /\ (verifyPage.pc = "await" /\ verifyPage'.pc = "idle")
          => /\ verifyPage'.status \in VerifyResults \cup {"error"}
             /\ verifyPage'.status # "error" => verifyPage'.status = lastVerify'
             /\ (verifyPage.token \in Users /\ accounts[verifyPage.token].verified)
                  => /\ verifyPage'.status \in {"already_verified", "error"}
                     /\ accounts' = accounts
C9_VerifyIdempotent == []C9_OneOfFour /\ [][C9_Step]_vars

\* a second verify of a verified account has answered
C9_Witness ==
    /\ lastVerify = "already_verified"
    /\ verifyPage.status = "already_verified"
    /\ \E u \in Users : accounts[u].verified

\* ------------------------------------------------------------------ C10
\* C10: setStatus is an idempotent upsert: in every reachable state the table
\* holds at most one status row per (user, album), and whenever a setStatus
\* request has been answered with a row, that row is the one row of its
\* (user, album) -- also when the same request was made before or is being
\* served at the same time.
C10_OneRowPerUserAlbum ==
    \A r1, r2 \in srvStatuses :
        (r1.user = r2.user /\ r1.spotify_album_id = r2.spotify_album_id) => r1 = r2
C10_AnsweredRowIsTheRow ==
    \A k \in Slots :
        (statusOps[k].pc = "looked" /\ statusOps'[k].pc = "served")
            => /\ RowsOf(srvStatuses', statusOps[k].user, statusOps[k].req.spotify_album_id)
                    = {statusOps'[k].row}
               /\ statusOps'[k].row.status = statusOps[k].req.status
               /\ statusOps'[k].row.is_favorite = statusOps[k].req.is_favorite
               /\ (RowsOf(srvStatuses, statusOps[k].user, statusOps[k].req.spotify_album_id)
                     = {statusOps'[k].row}) => srvStatuses' = srvStatuses
C10_SetStatusIdempotentUpsert ==
    []C10_OneRowPerUserAlbum /\ [][C10_AnsweredRowIsTheRow]_vars

\* ------------------------------------------------------------------ C11
\* a request of the favorite button: updateStatus is called by it alone, and
\* it alone passes is_favorite = true to addStatus
FromFavoriteButton(op) ==
    op.kind = "update" \/ (op.kind = "add" /\ op.req.is_favorite)

\* C11, read on the server's rows: whenever a request of the
\* favorite button is served, an album without a row gets the row
\* (want-to-listen, favorite), and an album with a row keeps the row's status
\* and has its is_favorite flag negated.
C11_OriginalStep ==
    \A k \in Slots :
        (statusOps[k].pc \in {"sent", "looked"} /\ statusOps'[k].pc = "served"
         /\ FromFavoriteButton(statusOps[k]))
            => LET new == statusOps'[k].row
                   before == {r \in srvStatuses : r.user = new.user
                                 /\ r.spotify_album_id = new.spotify_album_id}
               IN IF before = {}
                  THEN new.status = "want-to-listen" /\ new.is_favorite
                  ELSE \A r \in before :
                          new.status = r.status /\ new.is_favorite = ~r.is_favorite
C11_Original == [][C11_OriginalStep]_vars

\* ------------------------------------------------------------------ C12
\* C12: when a status button replaces the current row of an album by a row of
\* the other status, the new row carries the current row's is_favorite flag.
C12_Step ==
    \A k \in Slots :
        (statusOps[k].pc = "idle" /\ statusOps'[k].kind = "remove"
         /\ statusOps'[k].then # NoRow)
            => statusOps'[k].then.is_favorite
                 = Find(statuses, statusOps'[k].then.spotify_album_id).is_favorite
C12_Original == [][C12_Step]_vars

\* ------------------------------------------------------------------ C13
\* C13: a removeStatus call that the server answers with "no such row" ends
\* as a call for an existing row does: without an error, and with the row
\* gone from the local list.
C13_Step ==
    \A k \in Slots :
        (statusOps[k].kind = "remove" /\ statusOps[k].pc \in {"served", "failed"}
         /\ statusOps'[k] # statusOps[k] /\ statusOps'[k].pc # "failed")
            => /\ statusOps[k].pc = "served"
               /\ \A i \in 1..Len(statuses') : statuses'[i].id # statusOps[k].found
C13_Original == [][C13_Step]_vars

\* ------------------------------------------------------------------ C19
\* C19: a failure of the catalog (request rejected, non-OK answer, answer that
\* does not parse) never leaves the search page or the home page with an
\* error: the page's list is empty and no exception has left the handler.
C19_CatalogFailureGivesEmptyList ==
    /\ search.failed => search.results = {}
    /\ search.error = "none"
    /\ home.status \in {"200-malformed", "500", "network"} => home.albums = <<>>
    /\ home.error = "none"

\* both pages have just been answered by a failing catalog
C19_Witness ==
    /\ search.pc = "idle" /\ search.failed
    /\ home.pc = "idle" /\ home.status = "network"

\* ------------------------------------------------------------------ C20
\* C20: when the first request of an apiFetch call is answered 401 and the
\* refresh fails -- no refresh token is stored, or /refresh refuses a refresh
\* token that is invalid or expired -- the call sends no retry, leaves
\* localStorage as it is and throws the 401 answer.
C20_Step ==
    \A c \in Callers :
        /\ (calls[c].pc = "await1" /\ calls'[c].status = "401"
            /\ localStorage.refresh_token = NoToken)
              => /\ calls'[c].pc = "done"
                 /\ calls'[c].sends = 1
                 /\ calls'[c].result = "throw"
                 /\ localStorage' = localStorage
        /\ (calls[c].pc = "refreshing" /\ calls[c].rtok \notin ValidRefresh
            /\ calls'[c] # calls[c] /\ calls'[c].status # "network")
              => /\ calls'[c].pc = "done"
                 /\ calls'[c].status = "401"
                 /\ calls'[c].sends = 1
                 /\ calls'[c].result = "throw"
                 /\ localStorage' = localStorage
C20_FailedRefreshIsTerminal == [][C20_Step]_vars

\* a call ended by a refused refresh while both tokens are still stored
C20_Witness ==
    \E c \in Callers :
        /\ calls[c].pc = "done"
        /\ calls[c].status = "401"
        /\ calls[c].refreshes = 1
        /\ calls[c].sends = 1
        /\ localStorage.access_token # NoToken
        /\ localStorage.refresh_token # NoToken

\* ------------------------------------------------------------------ C14
\* the server has just served the unfollow of slot k, right after the follow
\* of the same follower and followee
UnfollowAfterFollow(k) ==
    /\ followOps[k].pc = "sent"
    /\ followOps[k].kind = "unfollow"
    /\ followOps'[k].pc = "served"
    /\ followOps[k].who # NoUser
    /\ followLog.srv.who = followOps[k].who
    /\ followLog.srv.target = followOps[k].target

\* the edge count and the followee's follower count are those before the follow
C14_CountsRestored(k) ==
    /\ EdgeCount(follows', Pairs) = followLog.srv.edges
    /\ FollowersCount(follows', followOps[k].target) = followLog.srv.followers

\* the answer of an unfollow reaches the page after the answer of a follow:
\* the count shown is the one shown before the follow
C14_PageStep ==
    \A k \in Slots :
        (/\ followOps[k].pc = "served"
         /\ followOps[k].kind = "unfollow"
         /\ followOps'[k].pc = "idle"
         /\ followLog.page # NoProfile)
           => profileUser'.followers_count = followLog.page.followers_count

\* follow(A->A) fails, creates no edge, and its error leaves the page alone
C14_SelfStep ==
    \A k \in Slots :
        /\ (/\ followOps[k].pc = "sent"
            /\ followOps[k].kind = "follow"
            /\ followOps[k].who = followOps[k].target
            /\ followOps'[k] # followOps[k])
              => followOps'[k].pc = "failed" /\ follows' = follows
        /\ (followOps[k].pc = "failed" /\ followOps'[k].pc = "idle")
              => profileUser' = profileUser
C14_NoSelfEdge == \A u \in Users : follows[<<u, u>>] = 0

\* C14 as stated: follow(A->B) followed by unfollow(A->B) returns the number
\* of follow edges, B's follower count and the count shown on the profile
\* page to their values before the follow; follow(A->A) fails and creates no
\* edge.
C14_Original ==
    /\ []C14_NoSelfEdge
    /\ [][/\ \A k \in Slots : UnfollowAfterFollow(k) => C14_CountsRestored(k)
          /\ C14_PageStep
          /\ C14_SelfStep]_vars

\* C14: a follow(A->B) that creates the edge, followed by unfollow(A->B),
\* returns the number of follow edges and B's follower count to their values
\* before the follow, and the page shows after the unfollow's answer the count
\* it showed before the follow's; follow(A->A) fails and creates no edge.
C14_FollowThenUnfollow ==
    /\ []C14_NoSelfEdge
    /\ [][/\ \A k \in Slots :
                (UnfollowAfterFollow(k) /\ followLog.srv.created)
                    => C14_CountsRestored(k)
          /\ C14_PageStep
          /\ C14_SelfStep]_vars

\* the Follow click on bob's page was answered, the Unfollow click on the
\* resulting page has been served and the edge is gone; a follow of alice by
\* alice has been refused
C14_Witness ==
    \E k \in Slots, j \in Slots :
        /\ followOps[k].pc = "served"
        /\ followOps[k].kind = "unfollow"
        /\ followLog.page # NoProfile
        /\ followOps[k].seen = AfterToggle(followLog.page)
        /\ follows[<<followOps[k].who, followOps[k].target>>] = 0
        /\ followOps[j].pc = "failed"
        /\ followOps[j].kind = "follow"
        /\ followOps[j].who = followOps[j].target
        /\ followOps[j].who # NoUser

\* ------------------------------------------------------------------ C15
\* C15: a follow of a user already followed leaves the follow edges (hence
\* every follower and following count) as they are, its answer leaves the
\* page as the first follow's answer set it, and no ordered pair ever has
\* more than one edge.
C15_AtMostOneEdge == \A p \in Pairs : follows[p] <= 1
C15_Step ==
    \A k \in Slots :
        /\ (/\ followOps[k].pc = "sent"
            /\ followOps[k].kind = "follow"
            /\ followOps'[k].pc = "served"
            /\ follows[<<followOps[k].who, followOps[k].target>>] > 0)
              => /\ follows' = follows
                 /\ \A u \in Users : FollowersCount(follows', u) = FollowersCount(follows, u)
        /\ (/\ followOps[k].pc = "served"
            /\ followOps[k].kind = "follow"
            /\ followOps'[k].pc = "idle"
            /\ profileUser = AfterToggle(followOps[k].seen))
              => profileUser' = profileUser
C15_DoubleFollowIsNoOp == []C15_AtMostOneEdge /\ [][C15_Step]_vars

\* a second follow has been served on the edge the first created, and the
\* page already shows the first one's answer
C15_Witness ==
    \E k \in Slots :
        /\ followOps[k].pc = "served"
        /\ followOps[k].kind = "follow"
        /\ followLog.srv.who = followOps[k].who
        /\ followLog.srv.target = followOps[k].target
        /\ ~followLog.srv.created
        /\ profileUser = AfterToggle(followOps[k].seen)

\* ------------------------------------------------------------------ C16
\* the album's reviews that have a rating
Rated(albumId) ==
    {r \in srvReviews : r.spotify_album_id = albumId /\ r.rating # NoRating}
\* the half stars of a set of reviews, counted value by value
RECURSIVE HalfStars(_, _)
HalfStars(rows, v) ==
    IF v = 0 THEN 0
    ELSE v * Cardinality({r \in rows : r.rating = v}) + HalfStars(rows, v - 1)

\* C16: the average answered for an album is the arithmetic mean of its
\* reviews' non-null ratings (sum of the ratings over their number, reviews
\* without a rating counted in neither), null exactly when no review has a
\* rating, and 4 stars for the ratings 3, 4, 5; the card shows the answer as
\* it is, and keeps what it shows when the request fails.
C16_Step ==
    \A a \in Albums :
        /\ (avgOp.pc = "sent" /\ avgOp'.pc = "served")
              => /\ avgOp'.average = NoAverage <=> Rated(a) = {}
                 /\ avgOp'.average.n = Cardinality(Rated(a))
                 /\ avgOp'.average.sum = HalfStars(Rated(a), 10)
                 /\ (/\ Cardinality(srvReviews) = 3
                     /\ {r.rating : r \in srvReviews} = {6, 8, 10})
                       => avgOp'.average.sum = 8 * avgOp'.average.n
        /\ (avgOp.pc = "served" /\ avgOp'.pc = "idle") => avgRating' = avgOp.average
        /\ (avgOp.pc = "failed" /\ avgOp'.pc = "idle") => avgRating' = avgRating
C16_AverageIsMean == [][C16_Step]_vars

\* the card shows 4 stars (24 half stars over 3 reviews) for the ratings
\* 3, 4 and 5
C16_Witness ==
    /\ Cardinality(srvReviews) = 3
    /\ {r.rating : r \in srvReviews} = {6, 8, 10}
    /\ avgOp.pc = "idle"
    /\ avgRating.n = 3
    /\ avgRating.sum = 8 * avgRating.n

\* ------------------------------------------------------------------ C17
SameReview(r, q) == r.user = q.user /\ r.spotify_album_id = q.spotify_album_id
C17_OnePerUserAlbum ==
    /\ \A r \in srvReviews, q \in srvReviews : SameReview(r, q) => r = q
    /\ \A i \in 1..Len(reviews), j \in 1..Len(reviews) :
          SameReview(reviews[i], reviews[j]) => i = j
\* a createReview of a user who has a review of the album replaces it
C17_Step ==
    \A k \in Slots :
        (/\ reviewOps[k].pc = "looked"
         /\ reviewOps'[k].pc = "served"
         /\ \E r \in srvReviews : SameReview(r, reviewOps[k].req))
           => {r \in srvReviews' : SameReview(r, reviewOps[k].req)} = {reviewOps'[k].row}
\* C17 as stated: after any sequence of review submissions there is at most
\* one review per (user, album): a second createReview of the same user and
\* album replaces the earlier one, and the review list of the album page never
\* shows two reviews of one user for the album.
C17_Original == []C17_OnePerUserAlbum /\ [][C17_Step]_vars

\* ------------------------------------------------------------------ C18
\* C18 as stated: every rating a review is created with, and every rating the
\* form submits after a click on the star picker, is null or a half-point
\* step from 1 to 5 (2 to 10 half stars).
C18_Original ==
    /\ \A r \in srvReviews : r.rating = NoRating \/ r.rating \in 2..10
    /\ \A k \in Slots :
          reviewOps[k].pc # "idle"
            => reviewOps[k].req.rating = NoRating \/ reviewOps[k].req.rating \in 2..10

\* ------------------------------------------------------------------ C21
\* C21: refreshes are neither queued nor deduplicated: every call answered 401
\* while a refresh token is stored sends its own /refresh, whatever the other
\* calls are doing; a refresh that succeeds stores the token it was given,
\* replacing what another refresh stored before, and touches no other call;
\* no call refreshes or retries more than once.
C21_Step ==
    \A c \in Callers :
        /\ (/\ calls[c].pc = "await1"
            /\ calls'[c].status = "401"
            /\ localStorage.refresh_token # NoToken)
              => /\ calls'[c].pc = "refreshing"
                 /\ calls'[c].refreshes = 1
                 /\ calls'[c].rtok = localStorage.refresh_token
        /\ (calls[c].pc = "refreshing" /\ calls'[c].pc = "await2")
              => /\ calls'[c].token = AccessToken(calls[c].rtok.owner, nextTok')
                 /\ nextTok' = nextTok + 1
                 /\ localStorage'.access_token = calls'[c].token
                 /\ \A d \in Callers \ {c} : calls'[d] = calls[d]
C21_OncePerCall == \A c \in Callers : calls[c].refreshes <= 1 /\ calls[c].sends <= 2
C21_EachCallRefreshes == []C21_OncePerCall /\ [][C21_Step]_vars

\* two calls were answered 401, each made its own refresh and retried once;
\* the token stored is the one of the refresh that completed last
C21_Witness ==
    \E c \in Callers, d \in Callers :
        /\ calls[c].refreshes = 1 /\ calls[c].sends = 2
        /\ calls[d].refreshes = 1 /\ calls[d].sends = 2
        /\ calls[c].token # Undefined /\ calls[d].token # Undefined
        /\ calls[c].token.n < calls[d].token.n
        /\ localStorage.access_token = calls[d].token

\* ------------------------------------------------------------------ C24
\* C24 as stated: in every state each entry of the local status list belongs
\* to the logged-in user; after logout no row of the previous user is in it,
\* rows added by requests in flight at the logout included.
C24_Original ==
    \A i \in 1..Len(statuses) : statuses[i].user = user

\* ------------------------------------------------------------------ C27
\* C27 as stated: after any sequence of addStatus, updateStatus, removeStatus
\* and button presses, presses made before earlier requests completed
\* included, the local status list has at most one entry per album and no two
\* entries with the same status id.
C27_Original ==
    \A i \in 1..Len(statuses), j \in 1..Len(statuses) :
        i # j => /\ statuses[i].spotify_album_id # statuses[j].spotify_album_id
                 /\ statuses[i].id # statuses[j].id

\* ------------------------------------------------------------------ C22
\* C22 as stated: when the status of an album is changed several times, a
\* later change being made before the requests of an earlier one have
\* completed, then once all requests have completed the user has exactly one
\* status row for the album, with the status of the last change.
C22_Original ==
    \A a \in Albums :
        (lastPress # "none" /\ \A k \in Slots : statusOps[k].pc = "idle")
            => \E r \in srvStatuses :
                  /\ RowsOf(srvStatuses, user, a) = {r}
                  /\ r.status = lastPress

\* ------------------------------------------------------------------ C29
\* the entries of the local list for an album
ListedFor(list, a) == {i \in 1..Len(list) : list[i].spotify_album_id = a}

\* a press of the button of `status` on album a, made by slot k: the lit
\* button asks for the removal only; the other button asks for the removal
\* of the listed row, if any, and for nothing else until it is answered
C29_Press(k, a, status) ==
    LET current == Find(statuses, a)
        op == statusOps'[k]
    IN /\ current # NoRow /\ current.status = status
            => op.kind = "remove" /\ op.found = current.id /\ op.then = NoRow
       /\ current # NoRow /\ current.status # status
            => /\ op.kind = "remove" /\ op.found = current.id
               /\ op.then.status = status /\ op.then.spotify_album_id = a
       /\ current = NoRow
            => /\ op.kind = "add" /\ op.req.status = status
               /\ op.req.spotify_album_id = a

\* the steps of one press, no other press being made before its requests
\* have completed
C29_Step ==
    \A k \in Slots :
        /\ \A a \in Albums :
              /\ ToggleWantToListen(k, a) => C29_Press(k, a, "want-to-listen")
              /\ ToggleListened(k, a) => C29_Press(k, a, "listened")
        \* the addStatus of a replacement is sent once the old row is gone from
        \* the server and from the list
        /\ (statusOps[k].kind = "remove" /\ statusOps'[k].kind = "add")
              => /\ \A r \in srvStatuses' : r.id # statusOps[k].found
                 /\ \A i \in 1..Len(statuses') : statuses'[i].id # statusOps[k].found
                 /\ statusOps'[k].req.status = lastPress
        \* the lit button's removal has returned: the album has no status
        /\ (statusOps[k].kind = "remove" /\ statusOps[k].pc = "served"
                /\ statusOps[k].then = NoRow /\ statusOps'[k].pc = "idle")
              => \A a \in Albums :
                    /\ RowsOf(srvStatuses', user, a) = {}
                    /\ Find(statuses', a) = NoRow
        \* the addStatus has returned: the album has one row, of the pressed
        \* status, and the list shows it
        /\ (statusOps[k].kind = "add" /\ statusOps[k].pc = "served"
                /\ statusOps'[k].pc = "idle")
              => LET a == statusOps[k].req.spotify_album_id
                 IN /\ RowsOf(srvStatuses', user, a) = {statusOps[k].row}
                    /\ statusOps[k].row.status = lastPress
                    /\ Cardinality(ListedFor(statuses', a)) = 1
                    /\ Find(statuses', a) = statusOps[k].row

\* C29: pressing Want to Listen (resp. Listened) on an album that has that
\* status removes its row, and the album has no status; pressing it on an
\* album with no status or the other status leaves exactly one row, of the
\* pressed status; the old row is removed before the new one is added.
C29_PressSetsOrClears == [][C29_Step]_vars

\* a replacement has completed: the row of the other status was removed and
\* the row of the pressed status, a new one, is in the list and on the server
C29_Witness ==
    /\ NoPending
    /\ lastPress = "listened"
    /\ \E r \in srvStatuses :
          /\ r.user = "alice" /\ r.status = "listened" /\ r.id >= 3
          /\ statuses = <<r>>

\* ------------------------------------------------------------------ C25
\* C25 as stated: in every reachable state, a non-null logged-in user implies
\* that both an access token and a refresh token are stored, under every
\* interleaving of login, logout and in-flight /me requests.
C25_Original ==
    user # NoUser => /\ localStorage.access_token # NoToken
                     /\ localStorage.refresh_token # NoToken

\* ------------------------------------------------------------------ C26
\* C26 as stated: after logout no access token and no refresh token is stored
\* until the next successful login, even when an apiFetch call was awaiting
\* the answer of /refresh at the moment of logout: a key of the storage that
\* holds no token gets one only in the step that handles the successful
\* answer of /login.
C26_Original ==
    [][(\/ localStorage.access_token = NoToken /\ localStorage'.access_token # NoToken
        \/ localStorage.refresh_token = NoToken /\ localStorage'.refresh_token # NoToken)
          => login.pc = "await" /\ login'.pc = "me"]_vars

\* ------------------------------------------------------------------ C23
\* the steps of the startup hydration
C23_Step ==
    /\ Startup =>
          /\ user' = NoUser
          /\ localStorage.access_token = NoToken
                => calls'["init"].pc = "idle" /\ calls'["init"].sends = 0
          /\ localStorage.access_token # NoToken
                => /\ calls'["init"].pc = "await1"
                   /\ calls'["init"].sends = 1
                   /\ calls'["init"].token = localStorage.access_token
    /\ InitReturn =>
          /\ calls["init"].result = "ok"
                => /\ user' = calls["init"].token.owner
                   /\ localStorage' = localStorage
          /\ calls["init"].result # "ok"
                => /\ user' = NoUser
                   /\ localStorage'.access_token = NoToken
                   /\ localStorage'.refresh_token = NoToken
    \* the user becomes non-null only when /me has answered init or login
    /\ (user' # user /\ user' # NoUser)
          => \/ calls["init"].pc = "done" /\ calls["init"].result = "ok"
             \/ login.pc = "me" /\ calls["login"].result = "ok"

\* init's /me request is sent at most twice, with at most one refresh
C23_OneRetry ==
    /\ calls["init"].sends <= 2
    /\ calls["init"].refreshes <= 1
    /\ calls["init"].pc = "idle" => calls["init"].sends = 0

\* C23: on startup the client hydrates the user from the persisted access
\* token: with no stored access token no request is sent and the user stays
\* null; with one, /me is requested and the user is set on success; if the
\* request fails, after the single refresh-and-retry, both stored tokens are
\* removed and the user is null.
C23_HydratesFromStoredToken == []C23_OneRetry /\ [][C23_Step]_vars

\* init's /me request has failed after its refresh and retry, the tokens it
\* will remove still being stored
C23_Witness ==
    /\ calls["init"].pc = "done"
    /\ calls["init"].result = "throw"
    /\ calls["init"].sends = 2
    /\ localStorage.access_token # NoToken
    /\ localStorage.refresh_token # NoToken

\* ------------------------------------------------------------------ C28
\* C28 as stated: the follow state the client displays for a user changes
\* only when the follow or unfollow request succeeded; a failed or rejected
\* request leaves it unchanged, so that the displayed and the server's follow
\* state agree after every completed toggle: the FollowButton's `following`
\* changes only in the step that takes an OK answer.
C28_Original ==
    [][followButton'.following # followButton.following
          => followButton.pc = "answered" /\ followButton.ok]_vars

\* ------------------------------------------------------------------ C30
\* the positions in the script's run at which `cmd` was run
RunsOf(cmd) == {i \in 1..Len(boot.ran) : boot.ran[i].cmd = cmd}
FailedRunsOf(cmd) == {i \in RunsOf(cmd) : boot.ran[i].code # 0}

\* C30: the start script runs the database migration at most 5 times; if
\* all 5 attempts fail it exits with status 1 without running the seed
\* loader or starting the server; the server is started only after one
\* migration attempt has succeeded and the seed loader has then completed
\* successfully.
C30_StartsAfterMigrationAndSeed ==
    /\ Cardinality(RunsOf("alembic")) <= 5
    /\ Cardinality(FailedRunsOf("alembic")) = 5
          => /\ boot.pc = "exited" /\ boot.status = 1
             /\ RunsOf("seed") = {} /\ RunsOf("uvicorn") = {}
    /\ \A i \in RunsOf("uvicorn") :
          /\ i >= 3
          /\ boot.ran[i - 2] = Ran("alembic", 0)
          /\ boot.ran[i - 1] = Ran("seed", 0)
    /\ boot.pc = "serving" <=> RunsOf("uvicorn") # {}

\* the fifth migration attempt has failed
C30_Witness ==
    /\ Cardinality(FailedRunsOf("alembic")) = 5
    /\ boot.pc = "exited"

====
